---- MODULE Spec2Model ----
(***************************************************************************)
(* big-talk: the conversation loop of BigTalk.stream (stream.py), the      *)
(* terminal tool-execution handler (tool_execution.py) and the provider    *)
(* registry of the engine facade (big_talk.py).                            *)
(*                                                                         *)
(* Spec     one stream call, event by event, task by task.                 *)
(* SpecReg  the registry under add_provider / stream / send / close calls  *)
(*          issued by concurrent asyncio tasks on one engine.              *)
(* SpecMw   stream and send calls through the middleware stacks, with      *)
(*          well- and ill-formed arguments, one call after the other.      *)
(* SpecAdapter  the messages a provider adapter yields in one stream call   *)
(*          (llm/anthropic.py, llm/openai.py), failures included.          *)
(* SpecHandler  the terminal tool-execution handler on its own, with       *)
(*          static and runtime metadata.                                   *)
(* SpecOps  execute_tool and close on the engine facade.                   *)
(* SpecTasks  one stream call with the event loop's clock: tool tasks      *)
(*          that sleep, and a caller that stops pulling.                   *)
(* SpecWire  one stream or send call on a provider adapter, chunk by       *)
(*          chunk (llm/openai.py, llm/anthropic.py).                       *)
(* SpecTool  Tool.from_func on a signature with hidden defaults, and the   *)
(*          invocation of the tool (tool.py).                              *)
(* SpecCalls  stream and send calls one after the other, with middlewares  *)
(*          that edit ctx.messages and a provider that answers by the      *)
(*          history it is given.                                           *)
(* SpecZip  one stream call behind a tool-execution middleware that        *)
(*          returns fewer tasks than there are tool uses.                  *)
(***************************************************************************)
EXTENDS Integers, Sequences, FiniteSets, TLC

(***************************************************************************)
(* Bounds of the model.                                                    *)
(***************************************************************************)
\* largest max_iterations argument a stream call is given
MaxIterations == 3
\* events the stream-iteration pipeline produces during one call
MaxEvents == 3
\* tool uses the model requests during one call
MaxToolUses == 3
\* add_provider, stream, send and close calls on one engine
MaxOps == 4

(***************************************************************************)
(* Message model (message.py).  Ids are numbers; fresh ids (uuid4, provider*)
(* message ids) are drawn from the counter next_id.                        *)
(***************************************************************************)
\* tools=[tool_1]: the tool set of the call; ghost_tool is requested by the
\* model but is not part of it
ToolSet == {"tool_1"}
ToolNames == ToolSet \cup {"ghost_tool"}

Text == [type |-> "text", id |-> 0, name |-> ""]

ToolUse(id, name) == [type |-> "tool_use", id |-> id, name |-> name]

ToolResult(tool_use_id, result, is_error) ==
    [type |-> "tool_result", tool_use_id |-> tool_use_id, result |-> result,
     is_error |-> is_error]

UserMessage(id) ==
    [role |-> "user", id |-> id, parent_id |-> 0, is_aggregate |-> FALSE,
     content |-> <<>>]

AssistantMessage(id, parent_id, content, is_aggregate) ==
    [role |-> "assistant", id |-> id, parent_id |-> parent_id,
     is_aggregate |-> is_aggregate, content |-> content]

AppMessage(id, content) ==
    [role |-> "app", id |-> id, parent_id |-> 0, is_aggregate |-> FALSE,
     content |-> content]

ToolMessage(id, parent_id, content) ==
    [role |-> "tool", id |-> id, parent_id |-> parent_id,
     is_aggregate |-> FALSE, content |-> content]

\* the block at position pos of the message msg_id: tool-use ids are unique
MakeBlock(kind, msg_id, pos) ==
    IF kind = "text" THEN Text ELSE ToolUse(10 * msg_id + pos, kind)

MakeContent(kinds, msg_id) ==
    [pos \in 1..Len(kinds) |-> MakeBlock(kinds[pos], msg_id, pos)]

\* the contents of the aggregates a provider answers with: text only, one
\* or two tool uses, found and not found, with and without text between
Contents ==
    {<<"text">>, <<"tool_1">>, <<"ghost_tool">>, <<"tool_1", "tool_1">>,
     <<"tool_1", "text", "ghost_tool">>}

\* the block of a delta, and the content of an app message, which may look
\* like a tool use
DeltaKinds == {"tool_1"}
AppContents == {<<"tool_1">>}

\* number of tool-use blocks among the block kinds of a message
CountToolUses(kinds) == Cardinality({i \in 1..Len(kinds) : kinds[i] /= "text"})

\* messages=[simple_message]: the caller's input
InputMessages == <<UserMessage(0)>>

(***************************************************************************)
(* Engine state.                                                           *)
(***************************************************************************)
VARIABLES
    \* BigTalk._providers: name -> cached provider instance (None: absent)
    _providers,
    \* BigTalk._provider_factories: name -> registered factory (None: absent)
    _provider_factories,
    \* number of invocations of every factory (the counters of test_bigtalk.py)
    factory_calls,
    \* position of the stream call: idle, for, pulling, gather, emit, done,
    \* failed
    pc,
    \* the failure the call raised to its caller (None: none)
    error,
    \* StreamContext.model and StreamContext.max_iterations
    model, max_iterations,
    \* the loop variable of BaseStreamHandler.__call__
    iteration,
    \* the working history of BaseStreamHandler.__call__
    current_history,
    \* (parent_id, tool_use) pairs recorded in the current iteration
    tool_uses_by_parent,
    \* the awaitables returned by the tool-execution pipeline
    tool_tasks,
    \* the groups of results_by_parent that are still to be yielded
    results_by_parent,
    \* everything the call has yielded to its caller, with the iteration and
    \* the origin (pipeline or loop) of every event
    yielded,
    \* the calls of provider.stream and provider.send: the iteration, the
    \* provider, the model name and the messages it was called with, and the
    \* number of events yielded before the call
    stream_calls,
    \* whether a tool task of the current iteration completed before a task
    \* that was created earlier
    raced,
    \* the calls of tool functions: tool use, iteration and what the function
    \* did
    func_calls,
    \* source of fresh message ids, number of pipeline events so far and
    \* number of tool uses in the aggregates so far
    next_id, events, requested,
    \* the concurrent callers of one engine: where each is (idle, stream,
    \* send, close), the model identifier and the iterations left of its call, and
    \* the provider its call resolved last; whether no instance of its
    \* provider was cached when the call started
    call_pc, call_model, call_left, call_llm, call_cold,
    \* the last call on the engine's registry and its outcome, and the
    \* number of calls so far
    last_op, op_count,
    \* the factories registered under every name, in order, and the
    \* instances that the resolutions of every name returned
    registrations, resolved,
    \* MiddlewareStack._middleware of BigTalk._streaming, _stream_iteration
    \* and _tool_execution: the middlewares in registration order
    _streaming, _stream_iteration, _tool_execution,
    \* StreamContext._stream_iteration_handler and _tool_execution_handler:
    \* the handlers built when the call started
    _stream_iteration_handler, _tool_execution_handler,
    \* the streaming middlewares that called next and wait for the inner
    \* handler, outermost first; the events a short-circuiting middleware
    \* has still to yield
    frames, pending,
    \* what entered and left, in order: middlewares, terminal handlers, and
    \* the StreamIterationContext of every iteration
    call_log,
    \* str(e) of the failure the call raised
    error_text,
    \* number of stream calls that ended on this engine, and how the last of
    \* them ended
    calls_made, previous,
    \* the argument `messages` of the send call in flight, and what the call
    \* returned to its caller (None: nothing yet)
    call_messages, returned,
    \* the ToolExecutionContext handed to the tool-execution pipeline outside
    \* a stream or send call: its tool uses and its tools
    context,
    \* the close() coroutines that BigTalk.close gathers: for every provider
    \* whether its close() is pending, returned or raised; the number of
    \* close() calls every provider has received; and the failures of the
    \* ExceptionGroup that close raised
    close_tasks, close_calls, exceptions,
    \* the time of the event loop, and for every tool task that has started
    \* when it started and until when its tool function sleeps
    clock, timers,
    \* whether the caller has stopped pulling the stream (no, kept: it keeps
    \* the generator, dropped: it does not), and the generators of the call
    \* that are suspended at a yield since then, outermost first
    abandoned, suspended,
    \* one call on a provider adapter: the adapter and the method called
    \* (none: no call), where the call is (idle, chunks, done, failed), the
    \* argument `messages`, the chunks the SDK stream has delivered, and
    \* whether it has delivered its last
    adapter, method, wire_pc, wire_messages, received, exhausted,
    \* the locals of OpenAIProvider.stream and AnthropicProvider.stream:
    \* text_buffer, current_tool_index / _id / _name / _args, blocks; what the
    \* call has yielded or returned, and the failure it raised
    text_buffer, current_tool, blocks, produced, wire_error,
    \* Tool.from_func: the signature of `func`, the arguments
    \* hidden_default_types and hidden_default_values, where the reflection
    \* is (idle, built, failed, called), the Tool it built, and the arguments
    \* tool.func was called with
    func, hidden_default_types, hidden_default_values, tool_pc, tool_built,
    call_args,
    \* the list object the caller passed as `messages`: as it was before the
    \* call and as it is now; whether the working history of the call is
    \* that very object
    caller_list, history_shared,
    \* a provider that answers by the history it is given: the block kinds of
    \* its answer for every number of assistant messages in the history
    script,
    \* what the caller has kept of the call before this one: the method, the
    \* arguments, what was yielded or returned, and what the tools did
    kept

registry == <<_providers, _provider_factories, factory_calls>>

loop == <<pc, error, model, max_iterations, iteration, current_history,
          tool_uses_by_parent, tool_tasks, results_by_parent, yielded,
          stream_calls, raced, func_calls, next_id, events,
          requested>>

callers == <<call_pc, call_model, call_left, call_llm, call_cold, last_op,
             op_count, registrations, resolved>>

stacks == <<_streaming, _stream_iteration, _tool_execution>>

handlers == <<_stream_iteration_handler, _tool_execution_handler>>

mw == <<stacks, handlers, frames, pending, call_log, error_text, calls_made,
        previous>>

closing == <<close_tasks, close_calls, exceptions>>

timing == <<clock, timers>>

abandon == <<abandoned, suspended>>

adapter_call == <<adapter, method, wire_pc, wire_messages, received, exhausted,
                  text_buffer, current_tool, blocks, produced, wire_error>>

\* the components that are modelled on their own
reflection == <<func, hidden_default_types, hidden_default_values, tool_pc,
                tool_built, call_args>>

\* the caller's side of a call
caller_view == <<caller_list, history_shared, script, kept>>

standalone == <<adapter_call, reflection, caller_view>>

facade == <<call_messages, returned, context, closing, timing, abandon,
            standalone>>

vars == <<registry, loop, callers, mw, facade>>

(***************************************************************************)
(* Provider registry (big_talk.py).  A dict is a function whose domain is  *)
(* its key set.  A provider instance is named by the factory that built it *)
(* and the number of that invocation.                                      *)
(***************************************************************************)
None == "None"

ProviderNames == {"anthropic", "openai", "mock", "provB"}

\* the factories callers register: every add_provider call passes a callable
\* of its own, named by the provider name and a label
Factory(name, label) == name \o "." \o label

UserFactories == {Factory(name, label) : name \in ProviderNames,
                                         label \in {"f1", "f2"}}

Factories ==
    {"_anthropic_provider_factory", "_openai_provider_factory"}
        \cup UserFactories

Instance(factory, serial) == [factory |-> factory, serial |-> serial]

DictSet(d, k, v) == [n \in DOMAIN d \cup {k} |-> IF n = k THEN v ELSE d[n]]

DictDel(d, k) == [n \in DOMAIN d \ {k} |-> d[n]]

\* a model identifier is the sequence of its pieces: <<"mock", "/", "m">>
RECURSIVE Join(_)
Join(s) == IF s = <<>> THEN "" ELSE Head(s) \o Join(Tail(s))

ModelIds == {<<"mock", "/", "m">>}

\* model.rsplit('/', 1): the identifier is split at its last '/'
_parse_model_at_last(m) ==
    IF \A i \in 1..Len(m) : m[i] /= "/"
    THEN [error |-> "ValueError", provider |-> "", model_name |-> ""]
    ELSE LET last == CHOOSE i \in 1..Len(m) :
                         m[i] = "/" /\ \A j \in (i + 1)..Len(m) : m[j] /= "/"
         IN  [error |-> None,
              provider |-> Join(SubSeq(m, 1, last - 1)),
              model_name |-> Join(SubSeq(m, last + 1, Len(m)))]

\* '/' not in model -> ValueError; model.split('/', 1)
_parse_model(m) ==
    IF \A i \in 1..Len(m) : m[i] /= "/"
    THEN [error |-> "ValueError", provider |-> "", model_name |-> ""]
    ELSE LET first == CHOOSE i \in 1..Len(m) :
                          m[i] = "/" /\ \A j \in 1..(i - 1) : m[j] /= "/"
         IN  [error |-> None,
              provider |-> Join(SubSeq(m, 1, first - 1)),
              model_name |-> Join(SubSeq(m, first + 1, Len(m)))]

\* the instance the factory builds is returned but not stored
_get_provider_unstored(provider, providers, factories, calls) ==
    IF provider \in DOMAIN providers
    THEN [error |-> None, llm |-> providers[provider],
          providers |-> providers, calls |-> calls]
    ELSE IF provider \in DOMAIN factories
    THEN LET f == factories[provider]
             llm == Instance(f, calls[f] + 1)
         IN  [error |-> None, llm |-> llm,
              providers |-> providers,
              calls |-> [calls EXCEPT ![f] = @ + 1]]
    ELSE [error |-> "NotImplementedError", llm |-> Instance(None, 0),
          providers |-> providers, calls |-> calls]

\* the cache is written but never read
_get_provider_rebuilt(provider, providers, factories, calls) ==
    IF provider \in DOMAIN factories
    THEN LET f == factories[provider]
             llm == Instance(f, calls[f] + 1)
         IN  [error |-> None, llm |-> llm,
              providers |-> DictSet(providers, provider, llm),
              calls |-> [calls EXCEPT ![f] = @ + 1]]
    ELSE [error |-> "NotImplementedError", llm |-> Instance(None, 0),
          providers |-> providers, calls |-> calls]

\* the name that was not found is entered into the cache, without instance
_get_provider_marking(provider, providers, factories, calls) ==
    IF provider \in DOMAIN providers
    THEN [error |-> None, llm |-> providers[provider],
          providers |-> providers, calls |-> calls]
    ELSE IF provider \in DOMAIN factories
    THEN LET f == factories[provider]
             llm == Instance(f, calls[f] + 1)
         IN  [error |-> None, llm |-> llm,
              providers |-> DictSet(providers, provider, llm),
              calls |-> [calls EXCEPT ![f] = @ + 1]]
    ELSE [error |-> "NotImplementedError", llm |-> Instance(None, 0),
          providers |-> DictSet(providers, provider, Instance(None, 0)),
          calls |-> calls]

\* the cached instance, or the instance the registered factory builds now
\* (cached from then on), or NotImplementedError
_get_provider(provider, providers, factories, calls) ==
    IF provider \in DOMAIN providers
    THEN [error |-> None, llm |-> providers[provider],
          providers |-> providers, calls |-> calls]
    ELSE IF provider \in DOMAIN factories
    THEN LET f == factories[provider]
             llm == Instance(f, calls[f] + 1)
         IN  [error |-> None, llm |-> llm,
              providers |-> DictSet(providers, provider, llm),
              calls |-> [calls EXCEPT ![f] = @ + 1]]
    ELSE [error |-> "NotImplementedError", llm |-> Instance(None, 0),
          providers |-> providers, calls |-> calls]

_get_llm_provider(m, providers, factories, calls) ==
    LET parsed == _parse_model(m)
    IN  IF parsed.error /= None
        THEN [error |-> parsed.error, llm |-> Instance(None, 0),
              providers |-> providers, calls |-> calls, model_name |-> ""]
        ELSE LET got == _get_provider(parsed.provider, providers, factories,
                                      calls)
             IN  [error |-> got.error, llm |-> got.llm,
                  providers |-> got.providers, calls |-> got.calls,
                  model_name |-> parsed.model_name]

\* the cached instance of the name survives the registration
add_provider_stale(name, provider_factory, override, providers, factories) ==
    IF ~override /\ (name \in DOMAIN providers \/ name \in DOMAIN factories)
    THEN [error |-> "ValueError", providers |-> providers,
          factories |-> factories]
    ELSE [error |-> None,
          factories |-> DictSet(factories, name, provider_factory),
          providers |-> providers]

\* only the cached instances make a name known
add_provider_lax(name, provider_factory, override, providers, factories) ==
    IF ~override /\ name \in DOMAIN providers
    THEN [error |-> "ValueError", providers |-> providers,
          factories |-> factories]
    ELSE [error |-> None,
          factories |-> DictSet(factories, name, provider_factory),
          providers |-> DictDel(providers, name)]

\* add_provider: ValueError for a known name without override; else the
\* factory is registered and a cached instance of the name is dropped
add_provider(name, provider_factory, override, providers, factories) ==
    IF ~override /\ (name \in DOMAIN providers \/ name \in DOMAIN factories)
    THEN [error |-> "ValueError", providers |-> providers,
          factories |-> factories]
    ELSE [error |-> None,
          factories |-> DictSet(factories, name, provider_factory),
          providers |-> DictDel(providers, name)]

(***************************************************************************)
(* Terminal tool-execution handler (tool_execution.py).                    *)
(***************************************************************************)
NotFound(name) == "Tool " \o name \o " not found"

\* an awaitable returned by the handler: _error_result(...) is bound to its
\* result when it is created, _execute_tool(...) gets it when it runs
Task(tool_use, kind, result) ==
    [tool_use_id |-> tool_use.id, name |-> tool_use.name, kind |-> kind,
     state |-> "pending", result |-> result]

\* every tool use is handed to _execute_tool, found or not
BaseToolExecutionHandler_calling(tool_uses, tools) ==
    [i \in 1..Len(tool_uses) |->
        Task(tool_uses[i], "_execute_tool",
             ToolResult(tool_uses[i].id, "", FALSE))]

\* BaseToolExecutionHandler.__call__: one task per tool use, in order
BaseToolExecutionHandler(tool_uses, tools) ==
    [i \in 1..Len(tool_uses) |->
        IF tool_uses[i].name \notin tools
        THEN Task(tool_uses[i], "_error_result",
                  ToolResult(tool_uses[i].id, NotFound(tool_uses[i].name), TRUE))
        ELSE Task(tool_uses[i], "_execute_tool",
                  ToolResult(tool_uses[i].id, "", FALSE))]

\* what tool.func does when it is called: it returns or it raises
Outcomes == {"returns", "raises"}

\* no try/except: what the tool function raises leaves the task
_execute_tool_uncaught(task, outcome) ==
    IF outcome = "returns"
    THEN ToolResult(task.tool_use_id, "Tool Output", FALSE)
    ELSE [ToolResult(task.tool_use_id, "Boom!", TRUE) EXCEPT
             !.type = "exception"]

\* _execute_tool: the serialized return value, or str(e) with is_error
_execute_tool(task, outcome) ==
    IF outcome = "returns"
    THEN ToolResult(task.tool_use_id, "Tool Output", FALSE)
    ELSE ToolResult(task.tool_use_id, "Boom!", TRUE)

(***************************************************************************)
(* Helpers of the loop (stream.py).                                        *)
(***************************************************************************)
\* [b for b in message['content'] if b['type'] == 'tool_use'], paired
\* with the id of the message
RECURSIVE ExtractToolUses(_, _)
ExtractToolUses(parent_id, content) ==
    IF content = <<>> THEN <<>>
    ELSE (IF Head(content).type = "tool_use"
          THEN <<[parent_id |-> parent_id, tool_use |-> Head(content)]>>
          ELSE <<>>) \o ExtractToolUses(parent_id, Tail(content))

\* the range ends one iteration late
RangeExhaustedLate(i, n) == i > n

\* for iteration in range(ctx.max_iterations): is the range exhausted
RangeExhausted(i, n) == i >= n

\* if not tool_uses_by_parent: break
NoToolUses(pairs) == pairs = <<>>

\* deltas are appended too
AppendedWithDeltas(message) == TRUE

\* does the loop append the message to the working history
Appended(message) == message.role = "app" \/ message.is_aggregate

\* app messages are scanned for tool uses like aggregates
ScannedWithApp(message) == message.role = "app" \/ message.is_aggregate

\* deltas are scanned too
ScannedWithDeltas(message) == message.role /= "app"

\* does the loop scan the message for tool uses
Scanned(message) == message.role /= "app" /\ message.is_aggregate

\* the newest result is put first
AddResultFirst(groups, parent_id, result) ==
    IF \E i \in 1..Len(groups) : groups[i].parent_id = parent_id
    THEN [i \in 1..Len(groups) |->
             IF groups[i].parent_id = parent_id
             THEN [groups[i] EXCEPT !.results = <<result>> \o @]
             ELSE groups[i]]
    ELSE <<[parent_id |-> parent_id, results |-> <<result>>]>> \o groups

\* results_by_parent[parent_id].append(result) on an insertion-ordered dict
AddResult(groups, parent_id, result) ==
    IF \E i \in 1..Len(groups) : groups[i].parent_id = parent_id
    THEN [i \in 1..Len(groups) |->
             IF groups[i].parent_id = parent_id
             THEN [groups[i] EXCEPT !.results = Append(@, result)]
             ELSE groups[i]]
    ELSE Append(groups, [parent_id |-> parent_id, results |-> <<result>>])

\* every result is put with the parent of the tool use it answers
RECURSIVE GroupResultsById(_, _, _)
GroupResultsById(pairs, results, groups) ==
    IF results = <<>> THEN groups
    ELSE LET asked == CHOOSE i \in 1..Len(pairs) :
                          pairs[i].tool_use.id = Head(results).tool_use_id
         IN  GroupResultsById(pairs, Tail(results),
                              AddResult(groups, pairs[asked].parent_id,
                                        Head(results)))

\* for (parent_id, _), result in zip(tool_uses_by_parent, tool_results)
RECURSIVE GroupResults(_, _, _)
GroupResults(pairs, results, groups) ==
    IF pairs = <<>> \/ results = <<>> THEN groups
    ELSE GroupResults(Tail(pairs), Tail(results),
                      AddResult(groups, Head(pairs).parent_id, Head(results)))

\* the results in the reverse of the order of the tasks
GatherResultsReversed(tasks) ==
    [i \in 1..Len(tasks) |-> tasks[Len(tasks) + 1 - i].result]

\* asyncio.gather(*tool_tasks): the results in the order of the tasks
GatherResults(tasks) == [i \in 1..Len(tasks) |-> tasks[i].result]

(***************************************************************************)
(* The generic onion (middleware/middleware_stack.py).  A handler is the   *)
(* sequence of the middlewares around a terminal handler, outermost first: *)
(* calling it calls its head with its tail as next handler.                *)
(***************************************************************************)
\* largest number of pass-through middlewares registered on one stack
MaxMiddleware == 2

Middleware(tag, kind) == [tag |-> tag, kind |-> kind]

\* the terminal handlers of the three stacks (BigTalk.__init__)
BaseStreamHandler == Middleware("BaseStreamHandler", "base")

BaseStreamIterationHandler == Middleware("BaseStreamIterationHandler", "base")

BaseToolExecutionTerminal == Middleware("BaseToolExecutionHandler", "base")

\* mw(handler, ctx): logs, calls handler(ctx) once, passes every event on
Pass(i) == Middleware("mw" \o ToString(i), "pass")

\* router_middleware: assigns ctx.model, then passes on
Router == Middleware("router", "router")

RoutedFrom == <<"mock", "/", "expensive">>

RoutedTo == <<"provB", "/", "cheap">>

\* cache_middleware / app_middleware: yields its own events, never calls
\* the handler
Short == Middleware("cache", "short")

\* history_middleware: if ctx.iteration == 0 it splices db_history into
\* ctx.messages, then passes on
History == Middleware("history", "history")

db_history == <<AssistantMessage(80, 0, <<Text>>, TRUE)>>

\* a middleware that splices db_history into ctx.messages whenever it is
\* entered, then passes on
Splice == Middleware("splice", "splice")

\* a tool-execution middleware that returns the tasks of its next handler
\* without the first of them
Drop == Middleware("drop", "drop")

\* the events of the short-circuiting middleware: an aggregate that holds a
\* ToolUse, and an app message
ShortEvents ==
    <<AssistantMessage(90, 0, <<Text, ToolUse(901, "tool_1")>>, TRUE),
      AppMessage(91, <<Text>>)>>

\* the attributes of the dataclasses StreamContext and StreamIterationContext
StreamContextFields ==
    {"model", "tools", "messages", "_provider_resolver", "max_iterations",
     "_stream_iteration_handler", "_tool_execution_handler"}

StreamIterationContextFields ==
    {"model", "tools", "messages", "_provider_resolver", "iteration"}

LogEntry(stack, event, tag, k) ==
    [stack |-> stack, event |-> event, tag |-> tag, iteration |-> k]

Reversed(s) == [i \in 1..Len(s) |-> s[Len(s) + 1 - i]]

\* _MiddlewareWrapper(mw, next_handler)
_MiddlewareWrapper(middleware, next_handler) == <<middleware>> \o next_handler

\* handler = wrapper(mw, handler) for every mw of the list, in its order
RECURSIVE Wrapped(_, _)
Wrapped(middlewares, handler) ==
    IF middlewares = <<>> THEN handler
    ELSE Wrapped(Tail(middlewares),
                 _MiddlewareWrapper(Head(middlewares), handler))

\* the list is wrapped in registration order: the last one is outermost
build_in_order(middleware, base_handler) ==
    Wrapped(middleware, <<base_handler>>)

\* the terminal handler alone: no middleware is wrapped around it
build_bare(middleware, base_handler) == <<base_handler>>

\* MiddlewareStack.build: for mw in reversed(self._middleware)
build(middleware, base_handler) ==
    Wrapped(Reversed(middleware), <<base_handler>>)

\* MiddlewareStack.use
use(middleware, m) == Append(middleware, m)

\* the wrapper calls the next handler itself when its middleware did not
RECURSIVE CallEveryNext(_, _, _)
CallEveryNext(handler, stack, c) ==
    LET m == Head(handler)
        enter == LogEntry(stack, "enter", m.tag, c.iteration)
    IN  IF m.kind = "base"
        THEN [log |-> <<LogEntry(stack, "terminal", m.tag, c.iteration)>>,
              outcome |-> "terminal", model |-> c.model,
              messages |-> c.messages, frames |-> <<>>]
        ELSE LET inner == CallEveryNext(Tail(handler), stack, c)
             IN  [inner EXCEPT !.log = <<enter>> \o @,
                               !.frames = <<m>> \o @]

\* every middleware works on a copy of the context: what it assigns is lost
\* to the handler inside it
RECURSIVE CallWithCopy(_, _, _)
CallWithCopy(handler, stack, c) ==
    LET m == Head(handler)
        enter == LogEntry(stack, "enter", m.tag, c.iteration)
    IN  IF m.kind = "base"
        THEN [log |-> <<LogEntry(stack, "terminal", m.tag, c.iteration)>>,
              outcome |-> "terminal", model |-> c.model,
              messages |-> c.messages, frames |-> <<>>]
        ELSE IF m.kind = "short"
        THEN [log |-> <<enter>>, outcome |-> "short", model |-> c.model,
              messages |-> c.messages, frames |-> <<>>]
        ELSE IF m.kind = "history" /\ "iteration" \notin c.fields
        THEN [log |-> <<enter>>, outcome |-> "AttributeError",
              model |-> c.model, messages |-> c.messages, frames |-> <<>>]
        ELSE LET inner == CallWithCopy(Tail(handler), stack, c)
             IN  [inner EXCEPT !.log = <<enter>> \o @,
                               !.frames = <<m>> \o @]

\* handler(ctx, **kwargs) up to the first await: every middleware runs its
\* code in front of the call of its next handler.  c is the context object:
\* its attributes, ctx.model, ctx.messages and ctx.iteration.  The result is
\* what was logged, where the call chain stopped (terminal, short, or the
\* failure raised), the context as it was left, and the middlewares that
\* wait for their next handler
RECURSIVE Call(_, _, _)
Call(handler, stack, c) ==
    LET m == Head(handler)
        enter == LogEntry(stack, "enter", m.tag, c.iteration)
    IN  IF m.kind = "base"
        THEN [log |-> <<LogEntry(stack, "terminal", m.tag, c.iteration)>>,
              outcome |-> "terminal", model |-> c.model,
              messages |-> c.messages, frames |-> <<>>]
        ELSE IF m.kind = "short"
        THEN [log |-> <<enter>>, outcome |-> "short", model |-> c.model,
              messages |-> c.messages, frames |-> <<>>]
        ELSE IF m.kind = "history" /\ "iteration" \notin c.fields
        THEN [log |-> <<enter>>, outcome |-> "AttributeError",
              model |-> c.model, messages |-> c.messages, frames |-> <<>>]
        ELSE LET spliced ==
                     IF \/ m.kind = "history" /\ c.iteration = 0
                        \/ m.kind = "splice"
                     THEN db_history \o c.messages ELSE c.messages
                 routed ==
                     IF m.kind = "router" /\ c.model = RoutedFrom
                     THEN RoutedTo ELSE c.model
                 inner == Call(Tail(handler), stack,
                               [c EXCEPT !.model = routed,
                                         !.messages = spliced])
             IN  [inner EXCEPT !.log = <<enter>> \o @,
                               !.frames = <<m>> \o @]

\* what awaiting the tool-execution handler returns: the tasks of the
\* terminal handler, as the middlewares around it pass them on
RECURSIVE ToolTasks(_, _, _)
ToolTasks(handler, tool_uses, tools) ==
    IF Head(handler).kind = "base"
    THEN BaseToolExecutionHandler(tool_uses, tools)
    ELSE LET inner == ToolTasks(Tail(handler), tool_uses, tools)
         IN  IF Head(handler).kind = "drop" /\ inner /= <<>>
             THEN Tail(inner) ELSE inner

\* no copy is made: the result is the argument itself
list_shared(iterable) == [shared |-> TRUE, items |-> iterable]

\* list(iterable): a new list object with the same items
list(iterable) == [shared |-> FALSE, items |-> iterable]

\* the attributes a ToolExecutionContext is built with (stream.py)
ToolExecutionContextFields == {"tool_uses", "tools", "messages", "iteration"}

\* the pass-through middlewares of a handler: all of them wait while the
\* terminal handler runs
Waiting(handler) == SubSeq(handler, 1, Len(handler) - 1)

\* the code of the waiting middlewares behind their loops, innermost first,
\* when the inner handler is exhausted
Exits(waiting, stack, k) ==
    [i \in 1..Len(waiting) |->
        LogEntry(stack, "exit", waiting[Len(waiting) + 1 - i].tag, k)]

(***************************************************************************)
(* One stream call.                                                        *)
(***************************************************************************)
ctx == <<model, max_iterations>>

counters == <<events, requested>>

tasks == <<tool_tasks, raced, func_calls>>

Yield(message, origin) ==
    Append(yielded, [message |-> message, iteration |-> iteration,
                     origin |-> origin])

\* the texts of the failures the engine raises
NoUserMessage ==
    "At least one user message is required to generate a response."

InvalidModelName(m) ==
    "Invalid model name: " \o Join(m)
        \o ". Expected format: \"provider/model_name\"."

NotSupported(provider) == "Provider \"" \o provider \o "\" is not supported."

NoAttribute(class, name) ==
    "'" \o class \o "' object has no attribute '" \o name \o "'"

\* any list that is not empty is accepted
AnyMessage(messages) == messages /= <<>>

\* any(message['role'] == 'user' for message in messages)
HasUserMessage(messages) ==
    \E i \in 1..Len(messages) : messages[i].role = "user"

\* self._normalize_tools(tools) was called
Normalized == LogEntry("engine", "call", "_normalize_tools", -1)

\* BigTalk.stream up to the first await of the call: validation, the tools
\* are normalized, the three handlers are built, StreamContext,
\* streaming_handler(ctx): the streaming
\* middlewares are entered and BaseStreamHandler.__call__ copies
\* ctx.messages into the working history
stream(m, messages, n) ==
    /\ pc = "idle"
    /\ IF ~HasUserMessage(messages)
       THEN /\ pc' = "failed"
            /\ error' = "ValueError"
            /\ error_text' = NoUserMessage
            /\ caller_list' = [before |-> messages, now |-> messages]
            /\ history_shared' = FALSE
            /\ UNCHANGED <<ctx, current_history, handlers, frames, pending,
                           call_log>>
       ELSE LET given == list(messages)
                entered ==
                    Call(build(_streaming, BaseStreamHandler), "streaming",
                         [fields |-> StreamContextFields, model |-> m,
                          messages |-> given.items, iteration |-> -1])
                working == list(entered.messages)
            IN  /\ caller_list' =
                       [before |-> messages,
                        now |-> IF given.shared THEN entered.messages
                                ELSE messages]
                /\ history_shared' = (/\ entered.outcome = "terminal"
                                      /\ given.shared /\ working.shared)
                /\ _stream_iteration_handler' =
                       build(_stream_iteration, BaseStreamIterationHandler)
                /\ _tool_execution_handler' =
                       build(_tool_execution, BaseToolExecutionTerminal)
                /\ model' = entered.model
                /\ max_iterations' = n
                /\ call_log' = call_log \o <<Normalized>> \o entered.log
                /\ frames' = entered.frames
                /\ current_history' = IF entered.outcome = "terminal"
                                      THEN working.items
                                      ELSE current_history
                /\ pending' = IF entered.outcome = "short"
                              THEN ShortEvents ELSE pending
                /\ pc' = CASE entered.outcome = "terminal" -> "for"
                           [] entered.outcome = "short" -> "short"
                           [] OTHER -> "failed"
                /\ IF entered.outcome \in {"terminal", "short"}
                   THEN UNCHANGED <<error, error_text>>
                   ELSE /\ error' = entered.outcome
                        /\ error_text' = NoAttribute("StreamContext",
                                                     "iteration")
    /\ UNCHANGED <<call_messages, returned, context, closing, timing, abandon,
                   adapter_call, reflection, script, kept>>
    /\ UNCHANGED <<callers, registry, stacks, calls_made, previous, iteration,
                   tool_uses_by_parent, tasks, results_by_parent, yielded,
                   stream_calls, next_id, counters>>

\* for iteration in range(ctx.max_iterations): the StreamIterationContext is
\* built and BaseStreamIterationHandler resolves the provider and calls
\* provider.stream; the loop ends when the range is exhausted
ForIteration ==
    /\ pc = "for"
    /\ IF RangeExhausted(iteration, max_iterations)
       THEN /\ pc' = "done"
            /\ call_log' = call_log \o Exits(frames, "streaming", -1)
            /\ frames' = <<>>
            /\ UNCHANGED <<registry, error, error_text, tool_uses_by_parent,
                           stream_calls, current_history>>
       ELSE LET entered ==
                    Call(_stream_iteration_handler, "stream_iteration",
                         [fields |-> StreamIterationContextFields,
                          model |-> model, messages |-> current_history,
                          iteration |-> iteration])
                got == _get_llm_provider(entered.model, _providers,
                                         _provider_factories, factory_calls)
            IN  /\ _providers' = got.providers
                /\ factory_calls' = got.calls
                /\ tool_uses_by_parent' = <<>>
                /\ current_history' = entered.messages
                /\ call_log' =
                       call_log
                           \o <<LogEntry("stream_iteration", "context",
                                         "StreamIterationContext", iteration)>>
                           \o entered.log
                /\ UNCHANGED <<_provider_factories, frames>>
                /\ IF got.error /= None
                   THEN /\ pc' = "failed"
                        /\ error' = got.error
                        /\ error_text' =
                               IF got.error = "ValueError"
                               THEN InvalidModelName(entered.model)
                               ELSE NotSupported(
                                        _parse_model(entered.model).provider)
                        /\ UNCHANGED stream_calls
                   ELSE /\ pc' = "pulling"
                        /\ stream_calls' =
                               Append(stream_calls,
                                      [method |-> "stream",
                                       iteration |-> iteration,
                                       provider |-> got.llm,
                                       model |-> got.model_name,
                                       messages |-> entered.messages,
                                       yielded |-> Len(yielded)])
                        /\ UNCHANGED <<error, error_text>>
    /\ UNCHANGED <<callers, facade, stacks, handlers, pending, calls_made, previous,
                   ctx, iteration, tasks, results_by_parent,
                   yielded, next_id, counters>>

\* the message is put in front of the working history
OnMessageInFront(message) ==
    /\ yielded' = Yield(message, "pipeline")
    /\ current_history' = IF Appended(message)
                          THEN <<message>> \o current_history
                          ELSE current_history
    /\ tool_uses_by_parent' =
           IF Scanned(message)
           THEN tool_uses_by_parent
                    \o ExtractToolUses(message.id, message.content)
           ELSE tool_uses_by_parent

\* the body of `async for message in ctx._stream_iteration_handler(...)`:
\* the message is yielded; an app message or an aggregate is appended to the
\* working history; the tool uses of an aggregate are recorded
OnMessage(message) ==
    /\ yielded' = Yield(message, "pipeline")
    /\ current_history' = IF Appended(message)
                          THEN Append(current_history, message)
                          ELSE current_history
    /\ tool_uses_by_parent' =
           IF Scanned(message)
           THEN tool_uses_by_parent
                    \o ExtractToolUses(message.id, message.content)
           ELSE tool_uses_by_parent

\* every delta is given an id of its own
StreamDeltaOwnId ==
    /\ pc = "pulling"
    /\ events < MaxEvents
    /\ \E kind \in DeltaKinds :
           OnMessage(AssistantMessage(100 + next_id + events, 0,
                                      MakeContent(<<kind>>, next_id), FALSE))
    /\ events' = events + 1
    /\ UNCHANGED <<callers, facade, mw, registry, pc, error, ctx, iteration, tasks,
                   results_by_parent, stream_calls, next_id, requested>>

\* the pipeline produces a delta: one block, the id of the coming aggregate
StreamDelta ==
    /\ pc = "pulling"
    /\ events < MaxEvents
    /\ \E kind \in DeltaKinds :
           OnMessage(AssistantMessage(next_id, 0,
                                      MakeContent(<<kind>>, next_id), FALSE))
    /\ events' = events + 1
    /\ UNCHANGED <<callers, facade, mw, registry, pc, error, ctx, iteration, tasks,
                   results_by_parent, stream_calls, next_id, requested>>

\* the pipeline produces the aggregate with these blocks
Aggregate(kinds) ==
    /\ pc = "pulling"
    /\ events < MaxEvents
    /\ requested + CountToolUses(kinds) <= MaxToolUses
    /\ requested' = requested + CountToolUses(kinds)
    /\ OnMessage(AssistantMessage(next_id, 0, MakeContent(kinds, next_id),
                                  TRUE))
    /\ events' = events + 1
    /\ next_id' = next_id + 1
    /\ UNCHANGED <<callers, facade, mw, registry, pc, error, ctx, iteration, tasks,
                   results_by_parent, stream_calls>>

\* the pipeline produces an aggregate
StreamAggregate == \E kinds \in Contents : Aggregate(kinds)

\* the pipeline produces an app message (a stream-iteration middleware)
StreamApp ==
    /\ pc = "pulling"
    /\ events < MaxEvents
    /\ \E kinds \in AppContents :
           OnMessage(AppMessage(next_id, MakeContent(kinds, next_id)))
    /\ events' = events + 1
    /\ next_id' = next_id + 1
    /\ UNCHANGED <<callers, facade, mw, registry, pc, error, ctx, iteration, tasks,
                   results_by_parent, stream_calls, requested>>

\* the failure of a provider empties the provider cache
StreamRaisesEvicting ==
    /\ pc = "pulling"
    /\ pc' = "failed"
    /\ error' = "RuntimeError"
    /\ _providers' = [n \in {} |-> Instance(None, 0)]
    /\ UNCHANGED <<callers, facade, mw, _provider_factories, factory_calls, ctx,
                   iteration, current_history, tool_uses_by_parent, tasks,
                   results_by_parent, yielded, stream_calls, next_id,
                   counters>>

\* provider.stream raises: the failure leaves the generator
StreamRaises ==
    /\ pc = "pulling"
    /\ pc' = "failed"
    /\ error' = "RuntimeError"
    /\ UNCHANGED <<callers, facade, mw, registry, ctx, iteration, current_history,
                   tool_uses_by_parent, tasks, results_by_parent, yielded,
                   stream_calls, next_id, counters>>

\* the pipeline is exhausted: break without tool uses, else the
\* ToolExecutionContext is built and the tool-execution handler returns the
\* tasks, which asyncio.gather starts
StreamEnd ==
    /\ pc = "pulling"
    /\ LET left == Exits(Waiting(_stream_iteration_handler),
                         "stream_iteration", iteration)
           called == Call(_tool_execution_handler, "tool_execution",
                          [fields |-> ToolExecutionContextFields,
                           model |-> model, messages |-> current_history,
                           iteration |-> iteration])
       IN  IF NoToolUses(tool_uses_by_parent)
           THEN /\ pc' = "done"
                /\ call_log' = call_log \o left
                                   \o Exits(frames, "streaming", -1)
                /\ frames' = <<>>
                /\ UNCHANGED <<tool_tasks, current_history>>
           ELSE /\ pc' = "gather"
                /\ current_history' = called.messages
                /\ tool_tasks' =
                       ToolTasks(
                           _tool_execution_handler,
                           [i \in 1..Len(tool_uses_by_parent) |->
                               tool_uses_by_parent[i].tool_use],
                           ToolSet)
                /\ call_log' = call_log \o left \o called.log
                                   \o Exits(called.frames, "tool_execution",
                                            iteration)
                /\ UNCHANGED frames
    /\ UNCHANGED <<callers, facade, registry, stacks, handlers, pending, error_text,
                   calls_made, previous, error, ctx, iteration,
                   tool_uses_by_parent, raced, func_calls,
                   results_by_parent, yielded, stream_calls, next_id,
                   counters>>

\* one of the gathered tasks runs to completion
RunToolTask(i) ==
    /\ pc \in {"gather", "send_gather", "tool_gather"}
    /\ tool_tasks[i].state = "pending"
    /\ IF tool_tasks[i].kind = "_error_result"
       THEN /\ tool_tasks' = [tool_tasks EXCEPT ![i].state = "done"]
            /\ UNCHANGED func_calls
       ELSE \E outcome \in Outcomes :
                /\ tool_tasks' =
                       [tool_tasks EXCEPT
                           ![i].state = "done",
                           ![i].result = _execute_tool(tool_tasks[i], outcome)]
                /\ func_calls' =
                       func_calls \cup
                           {[tool_use_id |-> tool_tasks[i].tool_use_id,
                             name |-> tool_tasks[i].name,
                             iteration |-> iteration,
                             outcome |-> outcome]}
    /\ raced' = (raced \/ \E j \in 1..(i - 1) : tool_tasks[j].state = "pending")
    /\ UNCHANGED <<callers, facade, mw, registry, pc, error, ctx, iteration, current_history,
                   tool_uses_by_parent, results_by_parent, yielded,
                   stream_calls, next_id, counters>>

\* the end of the iteration: the next value of range()
NextIteration ==
    /\ iteration' = iteration + 1
    /\ pc' = "for"
    /\ raced' = FALSE

\* asyncio.gather returns when every task is done, or raises what a task
\* raised; the results are grouped by parent
Gather ==
    /\ pc = "gather"
    /\ \A i \in 1..Len(tool_tasks) : tool_tasks[i].state = "done"
    /\ IF \E i \in 1..Len(tool_tasks) : tool_tasks[i].result.type = "exception"
       THEN /\ pc' = "failed"
            /\ error' = "ToolError"
            /\ UNCHANGED <<iteration, raced, results_by_parent>>
       ELSE LET groups == GroupResults(tool_uses_by_parent,
                                       GatherResults(tool_tasks), <<>>)
            IN  /\ results_by_parent' = groups
                /\ UNCHANGED error
                /\ IF groups = <<>>
                   THEN NextIteration
                   ELSE pc' = "emit" /\ UNCHANGED <<iteration, raced>>
    /\ tool_tasks' = <<>>
    /\ UNCHANGED <<callers, facade, mw, registry, ctx, current_history, tool_uses_by_parent,
                   func_calls, yielded, stream_calls, next_id, counters>>

\* the loop over the groups is left after the first ToolMessage
YieldToolMessageOnce ==
    /\ pc = "emit"
    /\ LET group == Head(results_by_parent)
           tool_result_message ==
               ToolMessage(next_id, group.parent_id, group.results)
       IN  /\ yielded' = Yield(tool_result_message, "loop")
           /\ current_history' = Append(current_history, tool_result_message)
    /\ next_id' = next_id + 1
    /\ results_by_parent' = <<>>
    /\ NextIteration
    /\ UNCHANGED <<callers, facade, mw, registry, error, ctx, tool_uses_by_parent, tool_tasks,
                   func_calls, stream_calls, counters>>

\* for parent_id, results in results_by_parent.items(): the ToolMessage is
\* yielded and appended to the working history
YieldToolMessage ==
    /\ pc = "emit"
    /\ LET group == Head(results_by_parent)
           tool_result_message ==
               ToolMessage(next_id, group.parent_id, group.results)
       IN  /\ yielded' = Yield(tool_result_message, "loop")
           /\ current_history' = Append(current_history, tool_result_message)
    /\ next_id' = next_id + 1
    /\ results_by_parent' = Tail(results_by_parent)
    /\ IF Tail(results_by_parent) = <<>>
       THEN NextIteration
       ELSE UNCHANGED <<pc, iteration, raced>>
    /\ UNCHANGED <<callers, facade, mw, registry, error, ctx, tool_uses_by_parent, tool_tasks,
                   func_calls, stream_calls, counters>>

\* close has not been called
NotClosing == [called |-> FALSE, state |-> [n \in {} |-> ""]]

InitClosing ==
    /\ close_tasks = NotClosing
    /\ close_calls = [n \in ProviderNames |-> 0]
    /\ exceptions = {}

\* no tool task has started and the caller pulls
InitTiming ==
    /\ clock = 0
    /\ timers = {}
    /\ abandoned = "no"
    /\ suspended = <<>>

\* a tool call that has not begun: current_tool_index = None
NoTool == [index |-> -1, id |-> "", name |-> "", args |-> <<>>]

\* no call on a provider adapter has started
InitWire ==
    /\ adapter = "none"
    /\ method = "none"
    /\ wire_pc = "idle"
    /\ wire_messages = <<>>
    /\ received = <<>>
    /\ exhausted = FALSE
    /\ text_buffer = <<>>
    /\ current_tool = NoTool
    /\ blocks = <<>>
    /\ produced = <<>>
    /\ wire_error = None

\* no function has been reflected
InitReflection ==
    /\ func = <<>>
    /\ hidden_default_types = {}
    /\ hidden_default_values = {}
    /\ tool_pc = "idle"
    /\ tool_built = [error |-> None, properties |-> [n \in {} |-> ""],
                     required |-> <<>>]
    /\ call_args = [error |-> None, params |-> [n \in {} |-> 0],
                    args |-> [n \in {} |-> 0]]

\* no send, execute_tool or close call has started
\* nothing is kept of an earlier call
NothingKept ==
    [method |-> None, model |-> <<>>, messages |-> <<>>, max_iterations |-> 0,
     yielded |-> <<>>, returned |-> <<>>, func_calls |-> {}, error |-> None]

\* no call has been made, the provider is not scripted
InitCallerView ==
    /\ caller_list = [before |-> <<>>, now |-> <<>>]
    /\ history_shared = FALSE
    /\ script = <<>>
    /\ kept = NothingKept

InitFacade ==
    /\ call_messages = <<>>
    /\ returned = None
    /\ context = [tool_uses |-> <<>>, tools |-> <<>>]
    /\ InitClosing
    /\ InitTiming
    /\ InitWire
    /\ InitReflection
    /\ InitCallerView

\* no stream call has started
InitLoop ==
    /\ pc = "idle"
    /\ error = None
    /\ model = <<>>
    /\ max_iterations = 0
    /\ iteration = 0
    /\ current_history = <<>>
    /\ tool_uses_by_parent = <<>>
    /\ tool_tasks = <<>>
    /\ results_by_parent = <<>>
    /\ yielded = <<>>
    /\ stream_calls = <<>>
    /\ raced = FALSE
    /\ func_calls = {}
    /\ next_id = 1
    /\ events = 0
    /\ requested = 0

Callers == {1, 2}

\* what last_op records of a call on the registry: the arguments, what was
\* raised, the provider returned and the factory invoked
Op(op, caller, name, factory, override, err, llm, invoked) ==
    [op |-> op, caller |-> caller, name |-> name, factory |-> factory,
     override |-> override, error |-> err, llm |-> llm, invoked |-> invoked]

\* BigTalk.__init__: three empty stacks around the terminal handlers
InitMiddleware ==
    /\ _streaming = <<>>
    /\ _stream_iteration = <<>>
    /\ _tool_execution = <<>>
    /\ _stream_iteration_handler = <<>>
    /\ _tool_execution_handler = <<>>
    /\ frames = <<>>
    /\ pending = <<>>
    /\ call_log = <<>>
    /\ error_text = ""
    /\ calls_made = 0
    /\ previous = [pc |-> "idle", error |-> None, error_text |-> ""]

\* no call is in flight
InitCallers ==
    /\ call_pc = [c \in Callers |-> "idle"]
    /\ call_model = [c \in Callers |-> <<>>]
    /\ call_left = [c \in Callers |-> 0]
    /\ call_llm = [c \in Callers |-> Instance(None, 0)]
    /\ call_cold = [c \in Callers |-> FALSE]
    /\ last_op = Op(None, 0, None, None, FALSE, None, Instance(None, 0), None)
    /\ op_count = 0
    /\ resolved = [n \in ProviderNames |-> {}]

\* BigTalk() followed by add_provider("mock", f1)
Init ==
    /\ InitCallers
    /\ InitMiddleware
    /\ InitFacade
    /\ _providers = [n \in {} |-> Instance(None, 0)]
    /\ _provider_factories =
           add_provider("mock", Factory("mock", "f1"), FALSE,
                        [n \in {} |-> Instance(None, 0)],
                        [n \in {"anthropic", "openai"} |->
                            IF n = "anthropic"
                            THEN "_anthropic_provider_factory"
                            ELSE "_openai_provider_factory"]).factories
    /\ factory_calls = [f \in Factories |-> 0]
    /\ registrations =
           [n \in ProviderNames |->
               IF n \in DOMAIN _provider_factories
               THEN <<_provider_factories[n]>> ELSE <<>>]
    /\ InitLoop

Next ==
    \/ \E m \in ModelIds, n \in 0..MaxIterations : stream(m, InputMessages, n)
    \/ ForIteration
    \/ StreamDelta
    \/ StreamAggregate
    \/ StreamApp
    \/ StreamRaises
    \/ StreamEnd
    \/ \E i \in 1..Len(tool_tasks) : RunToolTask(i)
    \/ Gather
    \/ YieldToolMessage

Spec == Init /\ [][Next]_vars

(***************************************************************************)
(* Properties of one stream call (Spec).                                   *)
(***************************************************************************)
IsAggregate(message) == message.role = "assistant" /\ message.is_aggregate

\* the ids of the ToolUse blocks of a message, in order
ToolUseIds(message) ==
    LET uses == ExtractToolUses(message.id, message.content)
    IN  [i \in 1..Len(uses) |-> uses[i].tool_use.id]

\* the positions of yielded at which iteration k yielded a message that
\* satisfies Test
Positions(k, Test(_)) ==
    {i \in 1..Len(yielded) :
        yielded[i].iteration = k /\ Test(yielded[i].message)}

IsRequest(message) == IsAggregate(message) /\ ToolUseIds(message) /= <<>>

IsToolMessage(message) == message.role = "tool"

\* the messages yielded at the positions S, in the order they were yielded
RECURSIVE YieldedAt(_)
YieldedAt(S) ==
    IF S = {} THEN <<>>
    ELSE LET first == CHOOSE i \in S : \A j \in S : i <= j
         IN  <<yielded[first].message>> \o YieldedAt(S \ {first})

\* the iterations for which provider.stream has been called
Started == {stream_calls[c].iteration : c \in 1..Len(stream_calls)}

C4_HistoryAggregates ==
    /\ \A i \in 1..Len(current_history) :
           current_history[i].role = "assistant"
               => current_history[i].is_aggregate
    /\ \A p \in 1..Len(tool_uses_by_parent) :
           \E i \in 1..Len(current_history) :
               /\ IsAggregate(current_history[i])
               /\ current_history[i].id = tool_uses_by_parent[p].parent_id
               /\ \E b \in 1..Len(current_history[i].content) :
                      current_history[i].content[b]
                          = tool_uses_by_parent[p].tool_use
    /\ \A i \in 1..Len(yielded) :
           (/\ yielded[i].origin = "pipeline"
            /\ \/ IsAggregate(yielded[i].message)
               \/ yielded[i].message.role = "app")
               => \E h \in 1..Len(current_history) :
                      current_history[h] = yielded[i].message

\* a delta that carries a tool use was yielded in an iteration that ended
\* without a tool use
C4_Witness ==
    /\ pc = "done"
    /\ \E i \in 1..Len(yielded) :
           /\ yielded[i].message.role = "assistant"
           /\ ~yielded[i].message.is_aggregate
           /\ ToolUseIds(yielded[i].message) /= <<>>
           /\ yielded[i].iteration = iteration
    /\ Positions(iteration, IsAggregate) /= {}
    /\ Positions(iteration, IsRequest) = {}

Answered(call) ==
    {i \in Positions(call.iteration, IsToolMessage) :
        \E r \in 1..Len(yielded[i].message.content) :
            yielded[i].message.content[r].tool_use_id = call.tool_use_id}

Unfound ==
    UNION {{[tool_use |-> yielded[p].message.content[b],
             parent_id |-> yielded[p].message.id,
             iteration |-> yielded[p].iteration, at |-> p] :
                b \in {b \in 1..Len(yielded[p].message.content) :
                          /\ yielded[p].message.content[b].type = "tool_use"
                          /\ yielded[p].message.content[b].name
                                 \notin ToolSet}} :
           p \in {p \in 1..Len(yielded) : IsRequest(yielded[p].message)}}

_from_block(block) ==
    IF block.type = "text"
    THEN [type |-> "text", text |-> block.name]
    ELSE [type |-> "tool_use", id |-> block.id, name |-> block.name]

\* AnthropicProvider._convert_messages: the list `converted`; a message
\* whose role is none of system, tool, user, assistant adds nothing
RECURSIVE anthropic_convert_messages(_)
anthropic_convert_messages(messages) ==
    IF messages = <<>> THEN <<>>
    ELSE LET message == Head(messages)
             content == message.content
             converted ==
                 CASE message.role = "system" -> <<>>
                   [] message.role = "tool" ->
                          <<[role |-> "user",
                             content |->
                                 [b \in 1..Len(content) |->
                                     [type |-> "tool_result",
                                      tool_use_id |-> content[b].tool_use_id,
                                      content |-> content[b].result,
                                      is_error |-> content[b].is_error]]]>>
                   [] message.role = "user" ->
                          <<[role |-> "user", content |-> content]>>
                   [] message.role = "assistant" ->
                          <<[role |-> "assistant",
                             content |-> [b \in 1..Len(content) |->
                                             _from_block(content[b])]]>>
                   [] OTHER -> <<>>
         IN  converted \o anthropic_convert_messages(Tail(messages))

IsTextBlock(block) == block.type = "text"

IsToolUseBlock(block) == block.type = "tool_use"

\* OpenAIProvider._convert_messages: the list `converted`; one tool message
\* per result block, the text parts of an assistant message unjoined; a
\* message whose role is none of system, tool, user, assistant adds nothing
RECURSIVE openai_convert_messages(_)
openai_convert_messages(messages) ==
    IF messages = <<>> THEN <<>>
    ELSE LET message == Head(messages)
             content == message.content
             text_parts == SelectSeq(content, IsTextBlock)
             uses == SelectSeq(content, IsToolUseBlock)
             tool_calls ==
                 [b \in 1..Len(uses) |->
                     [id |-> uses[b].id, type |-> "function",
                      function |-> [name |-> uses[b].name]]]
             converted ==
                 CASE message.role = "system" ->
                          <<[role |-> "system", content |-> content]>>
                   [] message.role = "tool" ->
                          [b \in 1..Len(content) |->
                              [role |-> "tool",
                               tool_call_id |-> content[b].tool_use_id,
                               content |-> content[b].result]]
                   [] message.role = "user" ->
                          <<[role |-> "user", content |-> content]>>
                   [] message.role = "assistant" ->
                          <<[role |-> "assistant",
                             content |-> text_parts,
                             tool_calls |-> tool_calls]>>
                   [] OTHER -> <<>>
         IN  converted \o openai_convert_messages(Tail(messages))

\* the app messages the stream-iteration pipeline has yielded
AppYielded ==
    {yielded[i].message : i \in {i \in 1..Len(yielded) :
                                    yielded[i].message.role = "app"}}

\* the ids of the ToolUse-shaped blocks of the yielded app messages
AppBlockIds ==
    UNION {{m.content[b].id : b \in 1..Len(m.content)} : m \in AppYielded}

NotApp(message) == message.role /= "app"

\* the tool-use ids a list of Anthropic wire messages mentions
AnthropicIds(wire) ==
    UNION {{IF wire[i].content[b].type = "tool_use"
            THEN wire[i].content[b].id
            ELSE IF wire[i].content[b].type = "tool_result"
                 THEN wire[i].content[b].tool_use_id ELSE 0 :
               b \in 1..Len(wire[i].content)} : i \in 1..Len(wire)}

\* the tool-call ids a list of OpenAI wire messages mentions
OpenAIIds(wire) ==
    UNION {IF wire[i].role = "assistant"
           THEN {wire[i].tool_calls[b].id : b \in 1..Len(wire[i].tool_calls)}
           ELSE IF wire[i].role = "tool" THEN {wire[i].tool_call_id} ELSE {} :
              i \in 1..Len(wire)}

\* C30: an app message of the stream-iteration pipeline is yielded and
\* appended to the working history, and it is never examined for ToolUse:
\* no task, function call, result or ToolMessage refers to it or to one of
\* its blocks, and an iteration is followed by another only if it yielded an
\* assistant aggregate with a ToolUse; the wire messages either adapter
\* builds for a provider call are those of the history without its app
\* messages and mention no block of an app message
C30_AppMessagesInert ==
    /\ \A m \in AppYielded :
           /\ \E h \in 1..Len(current_history) : current_history[h] = m
           /\ \A t \in 1..Len(tool_uses_by_parent) :
                  tool_uses_by_parent[t].parent_id /= m.id
           /\ \A i \in 1..Len(yielded) : yielded[i].message.parent_id /= m.id
    /\ \A t \in 1..Len(tool_tasks) : tool_tasks[t].tool_use_id \notin AppBlockIds
    /\ \A call \in func_calls : call.tool_use_id \notin AppBlockIds
    /\ \A i \in 1..Len(yielded) :
           yielded[i].message.role = "tool" =>
               \A r \in 1..Len(yielded[i].message.content) :
                   yielded[i].message.content[r].tool_use_id \notin AppBlockIds
    /\ \A c \in 1..Len(stream_calls) :
           /\ stream_calls[c].iteration > 0 =>
                  \E p \in 1..Len(yielded) :
                      /\ yielded[p].iteration = stream_calls[c].iteration - 1
                      /\ yielded[p].message.role = "assistant"
                      /\ yielded[p].message.is_aggregate
                      /\ \E b \in 1..Len(yielded[p].message.content) :
                             yielded[p].message.content[b].type = "tool_use"
           /\ LET messages == stream_calls[c].messages
                  anthropic == anthropic_convert_messages(messages)
                  openai == openai_convert_messages(messages)
              IN  /\ anthropic = anthropic_convert_messages(
                                     SelectSeq(messages, NotApp))
                  /\ openai = openai_convert_messages(
                                  SelectSeq(messages, NotApp))
                  /\ AnthropicIds(anthropic) \cap AppBlockIds = {}
                  /\ OpenAIIds(openai) \cap AppBlockIds = {}
                  /\ \A w \in 1..Len(anthropic) :
                         anthropic[w].role \in {"user", "assistant"}
                  /\ \A w \in 1..Len(openai) :
                         openai[w].role \in {"user", "assistant", "tool"}

\* a provider call was given a history that holds an app message with a
\* ToolUse-shaped block, next to a request and its ToolMessage
C30_Witness ==
    \E c \in 1..Len(stream_calls) :
        LET messages == stream_calls[c].messages
        IN  /\ \E h \in 1..Len(messages) :
                   /\ messages[h] \in AppYielded
                   /\ \E b \in 1..Len(messages[h].content) :
                          messages[h].content[b].type = "tool_use"
            /\ \E h \in 1..Len(messages) : messages[h].role = "tool"
            /\ Len(anthropic_convert_messages(messages)) = Len(messages) - 1
            /\ Len(openai_convert_messages(messages)) = Len(messages) - 1

(***************************************************************************)
(* One stream call on a provider adapter (SpecAdapter).  Both adapters     *)
(* draw one message id per provider.stream call: every delta of the call   *)
(* carries it, and so does the aggregate, which is the last message of the *)
(* call (anthropic.py: at message_stop; openai.py: after the chunk loop).  *)
(* The SDK stream may fail at any chunk.                                   *)
(***************************************************************************)
\* has the provider stream of the current iteration yielded its aggregate
AggregateYielded ==
    \E i \in (stream_calls[Len(stream_calls)].yielded + 1)..Len(yielded) :
        yielded[i].message.is_aggregate

\* a content block is complete: the delta with message_id
AdapterDelta ==
    /\ pc = "pulling"
    /\ ~AggregateYielded
    /\ StreamDelta

\* the message is complete: the aggregate with message_id
AdapterAggregate ==
    /\ pc = "pulling"
    /\ ~AggregateYielded
    /\ StreamAggregate

\* the generator of the adapter returns after its aggregate
AdapterEnd ==
    /\ pc = "pulling"
    /\ AggregateYielded
    /\ StreamEnd

NextAdapter ==
    \/ \E m \in ModelIds, n \in 0..MaxIterations : stream(m, InputMessages, n)
    \/ ForIteration
    \/ AdapterDelta
    \/ AdapterAggregate
    \/ StreamRaises
    \/ AdapterEnd
    \/ \E i \in 1..Len(tool_tasks) : RunToolTask(i)
    \/ Gather
    \/ YieldToolMessage

SpecAdapter == Init /\ [][NextAdapter]_vars

\* the positions of the yielded assistant messages
AssistantPositions ==
    {i \in 1..Len(yielded) : yielded[i].message.role = "assistant"}

AggregatePositions ==
    {i \in AssistantPositions : yielded[i].message.is_aggregate}

AssistantIds == {yielded[i].message.id : i \in AssistantPositions}

\* as many aggregates as distinct ids, each id once as an aggregate
OneAggregatePerId ==
    /\ Cardinality(AggregatePositions) = Cardinality(AssistantIds)
    /\ \A id \in AssistantIds :
           Cardinality({i \in AggregatePositions :
                           yielded[i].message.id = id}) = 1

RegModelIds == {<<"mock", "/", "m">>, <<"anthropic", "/", "m">>}

RegNames == {"mock", "anthropic"}

\* the factory a resolution invoked: the one whose count moved
Invoked(before, after) ==
    IF before = after THEN None
    ELSE CHOOSE f \in Factories : after[f] /= before[f]

\* the call of caller c is over: its frame is gone
Return(c) ==
    /\ call_pc' = [call_pc EXCEPT ![c] = "idle"]
    /\ call_model' = [call_model EXCEPT ![c] = <<>>]
    /\ call_left' = [call_left EXCEPT ![c] = 0]
    /\ call_llm' = [call_llm EXCEPT ![c] = Instance(None, 0)]
    /\ call_cold' = [call_cold EXCEPT ![c] = FALSE]

\* self._get_llm_provider(model) in the call of caller c: the call goes on
\* at `running` with the provider, or ends with what was raised
Resolve(c, m, running, left, cold) ==
    LET got == _get_llm_provider(m, _providers, _provider_factories,
                                 factory_calls)
        name == _parse_model(m).provider
    IN  /\ _providers' = got.providers
        /\ factory_calls' = got.calls
        /\ UNCHANGED _provider_factories
        /\ last_op' = Op("resolve", c, name, None, FALSE, got.error, got.llm,
                         Invoked(factory_calls, got.calls))
        /\ resolved' = IF got.error = None
                       THEN [resolved EXCEPT ![name] = @ \cup {got.llm}]
                       ELSE resolved
        /\ IF got.error /= None
           THEN Return(c)
           ELSE /\ call_pc' = [call_pc EXCEPT ![c] = running]
                /\ call_model' = [call_model EXCEPT ![c] = m]
                /\ call_left' = [call_left EXCEPT ![c] = left]
                /\ call_llm' = [call_llm EXCEPT ![c] = got.llm]
                /\ call_cold' = [call_cold EXCEPT ![c] = cold]

\* bt.add_provider(name, factory, override)
RegAddProvider(name, label, override) ==
    /\ op_count < MaxOps
    /\ LET added == add_provider(name, Factory(name, label), override,
                                 _providers, _provider_factories)
       IN  /\ _providers' = added.providers
           /\ _provider_factories' = added.factories
           /\ last_op' = Op("add_provider", 0, name, Factory(name, label),
                            override, added.error, Instance(None, 0), None)
           /\ registrations' =
                  IF added.error = None
                  THEN [registrations EXCEPT
                           ![name] = Append(@, Factory(name, label))]
                  ELSE registrations
    /\ op_count' = op_count + 1
    /\ UNCHANGED <<factory_calls, loop, mw, facade, call_pc, call_model, call_left,
                   call_llm, call_cold, resolved>>

\* caller c calls bt.stream(model, ..., max_iterations=n) and starts to
\* iterate: nothing is resolved before the first iteration
RegStream(c, m, n) ==
    /\ op_count < MaxOps
    /\ call_pc[c] = "idle"
    /\ call_pc' = [call_pc EXCEPT ![c] = "stream"]
    /\ call_model' = [call_model EXCEPT ![c] = m]
    /\ call_left' = [call_left EXCEPT ![c] = n]
    /\ call_llm' = [call_llm EXCEPT ![c] = Instance(None, 0)]
    /\ call_cold' = [call_cold EXCEPT
                        ![c] = _parse_model(m).provider \notin DOMAIN _providers]
    /\ last_op' = Op("stream", c, _parse_model(m).provider, None, FALSE, None,
                     Instance(None, 0), None)
    /\ op_count' = op_count + 1
    /\ UNCHANGED <<registry, loop, mw, facade, registrations, resolved>>

\* one iteration of the stream call of caller c: BaseStreamIterationHandler
\* resolves the provider, then the caller awaits the provider's stream
RegStreamIteration(c) ==
    /\ call_pc[c] = "stream"
    /\ call_left[c] > 0
    /\ Resolve(c, call_model[c], "stream", call_left[c] - 1, call_cold[c])
    /\ UNCHANGED <<loop, mw, facade, op_count, registrations>>

\* the stream call of caller c ends: no tool use in the last response, the
\* range is exhausted, a failure, or the caller stops iterating
RegStreamEnd(c) ==
    /\ call_pc[c] = "stream"
    /\ Return(c)
    /\ UNCHANGED <<registry, loop, mw, facade, last_op, op_count, registrations,
                   resolved>>

\* caller c calls bt.send(model, ...): the provider is resolved once, before
\* the first await
RegSend(c, m) ==
    /\ op_count < MaxOps
    /\ call_pc[c] = "idle"
    /\ Resolve(c, m, "send", 0,
               _parse_model(m).provider \notin DOMAIN _providers)
    /\ op_count' = op_count + 1
    /\ UNCHANGED <<loop, mw, facade, registrations>>

\* the send call of caller c returns or raises
RegSendEnd(c) ==
    /\ call_pc[c] = "send"
    /\ Return(c)
    /\ UNCHANGED <<registry, loop, mw, facade, last_op, op_count, registrations,
                   resolved>>

\* caller c calls bt.close() and awaits the close() of every cached
\* provider: the registry is read, not written
RegClose(c) ==
    /\ op_count < MaxOps
    /\ call_pc[c] = "idle"
    /\ call_pc' = [call_pc EXCEPT ![c] = "close"]
    /\ last_op' = Op("close", c, None, None, FALSE, None, Instance(None, 0),
                     None)
    /\ op_count' = op_count + 1
    /\ UNCHANGED <<registry, loop, mw, facade, call_model, call_left, call_llm, call_cold,
                   registrations, resolved>>

\* the close call of caller c returns or raises the ExceptionGroup
RegCloseEnd(c) ==
    /\ call_pc[c] = "close"
    /\ Return(c)
    /\ UNCHANGED <<registry, loop, mw, facade, last_op, op_count, registrations,
                   resolved>>

\* the engine right after BigTalk()
InitReg ==
    /\ InitCallers
    /\ InitMiddleware
    /\ InitFacade
    /\ InitLoop
    /\ _providers = [n \in {} |-> Instance(None, 0)]
    /\ _provider_factories =
           [n \in {"anthropic", "openai"} |->
               IF n = "anthropic" THEN "_anthropic_provider_factory"
                                  ELSE "_openai_provider_factory"]
    /\ factory_calls = [f \in Factories |-> 0]
    /\ registrations =
           [n \in ProviderNames |->
               IF n \in DOMAIN _provider_factories
               THEN <<_provider_factories[n]>> ELSE <<>>]

NextReg ==
    \/ \E name \in RegNames, label \in {"f1", "f2"}, override \in BOOLEAN :
           RegAddProvider(name, label, override)
    \/ \E c \in Callers, m \in RegModelIds, n \in 0..MaxIterations :
           RegStream(c, m, n)
    \/ \E c \in Callers : RegStreamIteration(c)
    \/ \E c \in Callers : RegStreamEnd(c)
    \/ \E c \in Callers, m \in RegModelIds : RegSend(c, m)
    \/ \E c \in Callers : RegSendEnd(c)
    \/ \E c \in Callers : RegClose(c)
    \/ \E c \in Callers : RegCloseEnd(c)

SpecReg == InitReg /\ [][NextReg]_vars

(***************************************************************************)
(* Properties of the registry (SpecReg).                                   *)
(***************************************************************************)
\* the number of times factory f was registered under name
Registered(name, f) ==
    Cardinality({i \in DOMAIN registrations[name] :
                    registrations[name][i] = f})

InFlight(c) == call_pc[c] /= "idle" /\ call_llm[c] /= Instance(None, 0)

\* C7: a registered factory is not invoked before the first resolution of its
\* name; as long as the name is not registered again, its factory has been
\* invoked exactly once from the first resolution on and every resolution
\* returned that one instance, which is the cached one.
C7_LazySingleton ==
    \A name \in DOMAIN _provider_factories :
        Len(registrations[name]) = 1 =>
            LET f == _provider_factories[name]
            IN  /\ factory_calls[f] = (IF resolved[name] = {} THEN 0 ELSE 1)
                /\ Cardinality(resolved[name]) <= 1
                /\ name \in DOMAIN _providers <=> resolved[name] /= {}
                /\ name \in DOMAIN _providers =>
                       resolved[name] = {_providers[name]}

\* a later resolution of "mock" was served from the cache, another call
\* having resolved it before
C7_Witness ==
    /\ registrations["mock"] = <<Factory("mock", "f1")>>
    /\ last_op.op = "resolve" /\ last_op.name = "mock"
    /\ last_op.error = None /\ last_op.invoked = None
    /\ factory_calls[Factory("mock", "f1")] = 1
    /\ last_op.llm = Instance(Factory("mock", "f1"), 1)

\* C8: a successful add_provider leaves the given factory registered and no
\* instance cached under the name; a cached instance was always built by the
\* factory registered now; a resolution returns an instance of the factory
\* registered now and invokes no other factory; no factory is invoked more
\* often than it was registered (f1 once and f2 once when f2 replaced f1).
C8_OverrideEvicts ==
    /\ \A name \in DOMAIN _providers :
           /\ name \in DOMAIN _provider_factories
           /\ _providers[name].factory = _provider_factories[name]
    /\ (last_op.op = "add_provider" /\ last_op.error = None) =>
           /\ _provider_factories[last_op.name] = last_op.factory
           /\ last_op.name \notin DOMAIN _providers
    /\ (last_op.op = "resolve" /\ last_op.error = None) =>
           /\ last_op.llm.factory = _provider_factories[last_op.name]
           /\ last_op.invoked \in {None, _provider_factories[last_op.name]}
    /\ \A name \in ProviderNames, f \in Factories :
           /\ factory_calls[f] <= Len(registrations[name])
                  \/ Registered(name, f) = 0
           /\ Registered(name, f) > 0 =>
                  factory_calls[f] <= Registered(name, f)
    /\ \A f \in Factories :
           (\A name \in ProviderNames : Registered(name, f) = 0) =>
               factory_calls[f] = 0

\* f1 was registered and used, f2 replaced it, and the next resolution
\* invoked f2: each has been invoked once
C8_Witness ==
    /\ registrations["mock"] = <<Factory("mock", "f1"), Factory("mock", "f2")>>
    /\ last_op.op = "resolve" /\ last_op.name = "mock"
    /\ last_op.invoked = Factory("mock", "f2")
    /\ last_op.llm = Instance(Factory("mock", "f2"), 1)
    /\ factory_calls[Factory("mock", "f1")] = 1
    /\ factory_calls[Factory("mock", "f2")] = 1

\* C9: two calls in flight at the same time that resolved the same name,
\* which was registered once, hold the same instance, and the factory of the
\* name has been invoked once.
C9_ConcurrentFirstUse ==
    \A c1 \in Callers : \A c2 \in Callers \ {c1} :
        LET name == _parse_model(call_model[c1]).provider
        IN  (/\ InFlight(c1) /\ InFlight(c2)
             /\ call_model[c1] # <<>> /\ call_model[c2] # <<>>
             /\ _parse_model(call_model[c2]).provider = name
             /\ Len(registrations[name]) = 1)
                => /\ call_llm[c1] = call_llm[c2]
                   /\ factory_calls[_provider_factories[name]] = 1

\* both stream calls started before "mock" was instantiated, both have
\* resolved it and are still in flight
C9_Witness ==
    /\ \A c \in Callers :
           /\ call_pc[c] = "stream" /\ call_cold[c]
           /\ call_model[c] = <<"mock", "/", "m">>
           /\ call_llm[c] = Instance(Factory("mock", "f1"), 1)
    /\ last_op.op = "resolve" /\ last_op.invoked = None
    /\ factory_calls[Factory("mock", "f1")] = 1

\* C10: add_provider without override for a name that has a cached instance
\* or a registered factory raises ValueError and changes neither _providers
\* nor _provider_factories.
C10_AddProviderRejects ==
    [][(/\ op_count' /= op_count
        /\ last_op'.op = "add_provider"
        /\ ~last_op'.override
        /\ \/ last_op'.name \in DOMAIN _providers
           \/ last_op'.name \in DOMAIN _provider_factories)
          => /\ last_op'.error = "ValueError"
             /\ _providers' = _providers
             /\ _provider_factories' = _provider_factories]_vars

\* add_provider("anthropic", f) was rejected while the pre-registered factory
\* and its cached instance were present
C10_Witness ==
    /\ last_op.op = "add_provider" /\ last_op.name = "anthropic"
    /\ ~last_op.override /\ last_op.error = "ValueError"
    /\ registrations["anthropic"] = <<"_anthropic_provider_factory">>
    /\ "anthropic" \in DOMAIN _providers
    /\ _providers["anthropic"] = Instance("_anthropic_provider_factory", 1)

(***************************************************************************)
(* Stream calls through the three middleware stacks (SpecMw): middlewares  *)
(* are registered on the idle engine, then stream is called, with well- and*)
(* ill-formed arguments, and called again when a call has ended.           *)
(***************************************************************************)
\* stream calls on one engine
MaxCalls == 2

PassStack(k) == [i \in 1..k |-> Pass(i)]

Passes == {Pass(i) : i \in 1..MaxMiddleware}

\* the middleware lists of the streaming stack that are registered
StreamingStacks ==
    {PassStack(k) : k \in 0..MaxMiddleware}
        \cup {<<Router>>, <<History>>, <<Pass(1), Short>>,
              <<Pass(1), Short, Pass(2)>>}

MwModelIds ==
    {<<"mock", "/", "m">>, RoutedFrom, <<"bad-format">>,
     <<"unknown", "/", "model">>, <<"mock", "/", "a", "/", "b">>,
     <<"/", "m">>, <<"mock", "/">>}

\* the model identifiers of the send calls
SendModelIds == {<<"mock", "/", "m">>, <<"bad-format">>}

\* an input without a user message
NoUserMessages == <<AssistantMessage(0, 0, <<Text>>, TRUE)>>

\* what the provider answers: a text, or a request of tool_1
MwContents == {<<"text">>, <<"tool_1">>}

\* MockToolProvider.stream: one response for every call
ProviderResponds(kinds) ==
    /\ pc = "pulling"
    /\ stream_calls[Len(stream_calls)].yielded = Len(yielded)
    /\ Aggregate(kinds)

\* bt.streaming.use(m)
streaming_use(m) ==
    /\ pc = "idle" /\ calls_made = 0
    /\ use(_streaming, m) \in StreamingStacks
    /\ _streaming' = use(_streaming, m)
    /\ UNCHANGED <<registry, loop, callers, facade, _stream_iteration,
                   _tool_execution, handlers, frames, pending, call_log,
                   error_text, calls_made, previous>>

\* bt.stream_iteration.use(m)
stream_iteration_use(m) ==
    /\ pc = "idle" /\ calls_made = 0
    /\ _streaming = PassStack(Len(_streaming))
    /\ Len(_stream_iteration) < Len(_streaming)
    /\ m = Pass(Len(_stream_iteration) + 1)
    /\ _stream_iteration' = use(_stream_iteration, m)
    /\ UNCHANGED <<registry, loop, callers, facade, _streaming, _tool_execution,
                   handlers, frames, pending, call_log, error_text,
                   calls_made, previous>>

\* bt.tool_execution.use(m)
tool_execution_use(m) ==
    /\ pc = "idle" /\ calls_made = 0
    /\ Len(_tool_execution) < Len(_stream_iteration)
    /\ m = Pass(Len(_tool_execution) + 1)
    /\ _tool_execution' = use(_tool_execution, m)
    /\ UNCHANGED <<registry, loop, callers, facade, _streaming, _stream_iteration,
                   handlers, frames, pending, call_log, error_text,
                   calls_made, previous>>

\* the short-circuiting middleware yields its next event; the waiting
\* middlewares pass it on and BigTalk.stream yields it
YieldShortCircuit ==
    /\ pc = "short"
    /\ pending /= <<>>
    /\ yielded' = Yield(Head(pending), "middleware")
    /\ pending' = Tail(pending)
    /\ UNCHANGED <<registry, callers, facade, stacks, handlers, frames, call_log,
                   error_text, calls_made, previous, pc, error, ctx,
                   iteration, current_history, tool_uses_by_parent, tasks,
                   results_by_parent, stream_calls, next_id, counters>>

\* the short-circuiting middleware is exhausted: so are the middlewares
\* around it, and the stream ends
ShortCircuitEnd ==
    /\ pc = "short"
    /\ pending = <<>>
    /\ pc' = "done"
    /\ call_log' = call_log \o Exits(frames, "streaming", -1)
    /\ frames' = <<>>
    /\ UNCHANGED <<registry, callers, facade, stacks, handlers, pending, error_text,
                   calls_made, previous, error, ctx, iteration,
                   current_history, tool_uses_by_parent, tasks,
                   results_by_parent, yielded, stream_calls, next_id,
                   counters>>

\* return current_history: the inputs are returned too
ReturnedWithInputs(history, messages) == history

\* return current_history[-1:]: the last message only
ReturnedLast(history, messages) ==
    SubSeq(history, Len(history), Len(history))

\* return current_history[len(messages):]
Returned(history, messages) ==
    SubSeq(history, Len(messages) + 1, Len(history))

\* BigTalk.send up to its first await: validation, the tools are
\* normalized, the tool-execution handler is built, the provider is resolved
send(m, messages, n) ==
    /\ pc = "idle"
    /\ IF ~HasUserMessage(messages)
       THEN /\ pc' = "failed"
            /\ error' = "ValueError"
            /\ error_text' = NoUserMessage
            /\ history_shared' = FALSE
            /\ UNCHANGED <<registry, ctx, current_history,
                           _tool_execution_handler, call_log>>
       ELSE LET got == _get_llm_provider(m, _providers, _provider_factories,
                                         factory_calls)
                working == list(messages)
            IN  /\ history_shared' = (got.error = None /\ working.shared)
                /\ _tool_execution_handler' =
                       build(_tool_execution, BaseToolExecutionTerminal)
                /\ call_log' = call_log \o <<Normalized>>
                /\ _providers' = got.providers
                /\ factory_calls' = got.calls
                /\ model' = m
                /\ max_iterations' = n
                /\ current_history' = working.items
                /\ UNCHANGED _provider_factories
                /\ IF got.error /= None
                   THEN /\ pc' = "failed"
                        /\ error' = got.error
                        /\ error_text' =
                               IF got.error = "ValueError"
                               THEN InvalidModelName(m)
                               ELSE NotSupported(_parse_model(m).provider)
                   ELSE /\ pc' = "send_for"
                        /\ UNCHANGED <<error, error_text>>
    /\ call_messages' = messages
    /\ caller_list' = [before |-> messages, now |-> messages]
    /\ UNCHANGED <<timing, abandon, adapter_call, reflection, script, kept>>
    /\ UNCHANGED <<callers, returned, context, closing, stacks, _stream_iteration_handler, frames,
                   pending, calls_made, previous, iteration,
                   tool_uses_by_parent, tasks, results_by_parent, yielded,
                   stream_calls, next_id, counters>>

\* for iteration in range(max_iterations): await provider.send(model_name,
\* current_history, ...) on the provider the call resolved, which the cache
\* still holds; behind the loop the new messages are returned
SendIteration ==
    /\ pc = "send_for"
    /\ IF RangeExhausted(iteration, max_iterations)
       THEN /\ pc' = "done"
            /\ returned' = Returned(current_history, call_messages)
            /\ UNCHANGED stream_calls
       ELSE LET parsed == _parse_model(model)
            IN  /\ pc' = "sending"
                /\ UNCHANGED returned
                /\ stream_calls' =
                       Append(stream_calls,
                              [method |-> "send",
                               iteration |-> iteration,
                               provider |-> _providers[parsed.provider],
                               model |-> parsed.model_name,
                               messages |-> current_history,
                               yielded |-> Len(yielded)])
    /\ UNCHANGED <<timing, abandon, standalone>>
    /\ UNCHANGED <<callers, call_messages, context, closing, mw, registry, error,
                   ctx,
                   iteration, current_history, tool_uses_by_parent, tasks,
                   results_by_parent, yielded, next_id, counters>>

\* provider.send returns the message: it is appended; without tool uses the
\* loop is left, else use_tools builds the ToolExecutionContext and awaits
\* the tool-execution handler, and asyncio.gather starts the tasks
SendResponds(kinds) ==
    /\ pc = "sending"
    /\ events < MaxEvents
    /\ requested + CountToolUses(kinds) <= MaxToolUses
    /\ LET message == AssistantMessage(next_id, 0,
                                       MakeContent(kinds, next_id), TRUE)
           found == ExtractToolUses(message.id, message.content)
           called == Call(_tool_execution_handler, "tool_execution",
                          [fields |-> ToolExecutionContextFields,
                           model |-> model,
                           messages |-> Append(current_history, message),
                           iteration |-> iteration])
       IN  /\ current_history' = IF NoToolUses(found)
                                 THEN Append(current_history, message)
                                 ELSE called.messages
           /\ tool_uses_by_parent' = found
           /\ IF NoToolUses(found)
              THEN /\ pc' = "done"
                   /\ returned' = Returned(Append(current_history, message),
                                           call_messages)
                   /\ UNCHANGED <<tool_tasks, call_log>>
              ELSE /\ pc' = "send_gather"
                   /\ UNCHANGED returned
                   /\ tool_tasks' =
                          ToolTasks(
                              _tool_execution_handler,
                              [i \in 1..Len(found) |-> found[i].tool_use],
                              ToolSet)
                   /\ call_log' = call_log \o called.log
                                      \o Exits(called.frames,
                                               "tool_execution", iteration)
    /\ events' = events + 1
    /\ requested' = requested + CountToolUses(kinds)
    /\ next_id' = next_id + 1
    /\ UNCHANGED <<timing, abandon, standalone>>
    /\ UNCHANGED <<callers, call_messages, context, closing, registry, stacks,
                   handlers, frames,
                   pending, error_text, calls_made, previous, error, ctx,
                   iteration, raced, func_calls, results_by_parent, yielded,
                   stream_calls>>

\* asyncio.gather returns in use_tools: a ToolMessage for every parent is
\* appended, and the next iteration starts
SendGather ==
    /\ pc = "send_gather"
    /\ \A i \in 1..Len(tool_tasks) : tool_tasks[i].state = "done"
    /\ IF \E i \in 1..Len(tool_tasks) : tool_tasks[i].result.type = "exception"
       THEN /\ pc' = "failed"
            /\ error' = "ToolError"
            /\ UNCHANGED <<iteration, raced, current_history, next_id>>
       ELSE LET groups == GroupResults(tool_uses_by_parent,
                                       GatherResults(tool_tasks), <<>>)
            IN  /\ current_history' =
                       current_history \o
                           [i \in 1..Len(groups) |->
                               ToolMessage(next_id + i - 1,
                                           groups[i].parent_id,
                                           groups[i].results)]
                /\ next_id' = next_id + Len(groups)
                /\ iteration' = iteration + 1
                /\ raced' = FALSE
                /\ pc' = "send_for"
                /\ UNCHANGED error
    /\ tool_tasks' = <<>>
    /\ UNCHANGED <<callers, facade, mw, registry, ctx, tool_uses_by_parent,
                   func_calls, results_by_parent, yielded, stream_calls,
                   counters>>

\* the caller is done with the call that ended or raised: the generator
\* and its frames are gone, the engine is as the call left it; the next call
\* has its own events and message ids
Discard ==
    /\ pc \in {"done", "failed"}
    /\ calls_made + 1 < MaxCalls
    /\ calls_made' = calls_made + 1
    /\ previous' = [pc |-> pc, error |-> error, error_text |-> error_text]
    /\ pc' = "idle"
    /\ error' = None
    /\ error_text' = ""
    /\ model' = <<>>
    /\ max_iterations' = 0
    /\ iteration' = 0
    /\ current_history' = <<>>
    /\ tool_uses_by_parent' = <<>>
    /\ tool_tasks' = <<>>
    /\ results_by_parent' = <<>>
    /\ yielded' = <<>>
    /\ stream_calls' = <<>>
    /\ raced' = FALSE
    /\ func_calls' = {}
    /\ frames' = <<>>
    /\ pending' = <<>>
    /\ call_log' = <<>>
    /\ _stream_iteration_handler' = <<>>
    /\ _tool_execution_handler' = <<>>
    /\ next_id' = 1 /\ events' = 0 /\ requested' = 0
    /\ call_messages' = <<>>
    /\ returned' = None
    /\ context' = [tool_uses |-> <<>>, tools |-> <<>>]
    /\ close_tasks' = NotClosing
    /\ exceptions' = {}
    /\ caller_list' = [before |-> <<>>, now |-> <<>>]
    /\ history_shared' = FALSE
    /\ UNCHANGED <<timing, abandon, adapter_call, reflection, script>>
    /\ UNCHANGED <<registry, callers, stacks, close_calls>>

\* the caller keeps nothing of the call
StreamReturn == Discard /\ UNCHANGED kept

\* BigTalk(), add_provider("mock", f1), add_provider("provB", f1)
InitMw ==
    /\ InitCallers
    /\ InitMiddleware
    /\ InitFacade
    /\ InitLoop
    /\ _providers = [n \in {} |-> Instance(None, 0)]
    /\ _provider_factories =
           add_provider(
               "provB", Factory("provB", "f1"), FALSE,
               [n \in {} |-> Instance(None, 0)],
               add_provider("mock", Factory("mock", "f1"), FALSE,
                            [n \in {} |-> Instance(None, 0)],
                            [n \in {"anthropic", "openai"} |->
                                IF n = "anthropic"
                                THEN "_anthropic_provider_factory"
                                ELSE "_openai_provider_factory"]).factories
           ).factories
    /\ factory_calls = [f \in Factories |-> 0]
    /\ registrations =
           [n \in ProviderNames |->
               IF n \in DOMAIN _provider_factories
               THEN <<_provider_factories[n]>> ELSE <<>>]

NextMw ==
    \/ \E m \in Passes \cup {Router, History, Short} : streaming_use(m)
    \/ \E m \in Passes : stream_iteration_use(m)
    \/ \E m \in Passes : tool_execution_use(m)
    \/ \E m \in MwModelIds, messages \in {InputMessages, NoUserMessages},
          n \in 0..MaxIterations : stream(m, messages, n)
    \/ ForIteration
    \/ \E kinds \in MwContents : ProviderResponds(kinds)
    \/ StreamRaises
    \/ StreamEnd
    \/ \E i \in 1..Len(tool_tasks) : RunToolTask(i)
    \/ Gather
    \/ YieldToolMessage
    \/ YieldShortCircuit
    \/ ShortCircuitEnd
    \/ \E m \in SendModelIds, messages \in {InputMessages, NoUserMessages},
          n \in 0..MaxIterations : send(m, messages, n)
    \/ SendIteration
    \/ \E kinds \in MwContents : SendResponds(kinds)
    \/ SendGather
    \/ StreamReturn

SpecMw == InitMw /\ [][NextMw]_vars

(***************************************************************************)
(* Properties of the calls through the middleware stacks (SpecMw).         *)
(***************************************************************************)
\* what one stack logged for one iteration (-1: the streaming stack, which
\* is around all iterations)
Logged(stack, k) ==
    SelectSeq(call_log,
              LAMBDA e : e.stack = stack /\ e.iteration = k
                             /\ e.event \in {"enter", "terminal", "exit"})

\* m1_enter, ..., mn_enter, terminal, mn_exit, ..., m1_exit
Onion(middleware, stack, terminal, k) ==
    [i \in 1..Len(middleware) |->
        LogEntry(stack, "enter", middleware[i].tag, k)]
        \o <<LogEntry(stack, "terminal", terminal.tag, k)>>
        \o Exits(middleware, stack, k)

IsPrefix(a, b) == Len(a) <= Len(b) /\ a = SubSeq(b, 1, Len(a))

\* every middleware of the list calls its next handler exactly once
CallNext(middleware) ==
    \A i \in 1..Len(middleware) : middleware[i].kind \in {"pass", "router"}

\* the iterations whose provider stream was called
Streamed ==
    {stream_calls[c].iteration :
        c \in {d \in 1..Len(stream_calls) :
                  stream_calls[d].method = "stream"}}

\* C11: with m1..mn registered in that order on any of the three stacks, one
\* invocation of the built handler logs m1_enter, ..., mn_enter, terminal,
\* mn_exit, ..., m1_exit: what is logged is always a prefix of that order,
\* and all of it once the invocation has ended; so each middleware is
\* entered exactly once
C11_RegistrationOrder ==
    /\ CallNext(_streaming) =>
           LET onion == Onion(_streaming, "streaming", BaseStreamHandler, -1)
           IN  /\ IsPrefix(Logged("streaming", -1), onion)
               /\ (pc = "done" /\ Logged("streaming", -1) /= <<>>)
                      => Logged("streaming", -1) = onion
    /\ \A k \in 0..MaxIterations :
           LET onion == Onion(_stream_iteration, "stream_iteration",
                              BaseStreamIterationHandler, k)
           IN  /\ IsPrefix(Logged("stream_iteration", k), onion)
               /\ (pc = "done" /\ k \in Streamed)
                      => Logged("stream_iteration", k) = onion
    /\ \A k \in 0..MaxIterations :
           Logged("tool_execution", k) \in
               {<<>>, Onion(_tool_execution, "tool_execution",
                            BaseToolExecutionTerminal, k)}

\* a stream call through two middlewares on every stack has ended after
\* tools were executed
C11_Witness ==
    /\ pc = "done"
    /\ Len(_streaming) >= 2 /\ CallNext(_streaming)
    /\ Len(_stream_iteration) >= 2
    /\ Len(_tool_execution) >= 2
    /\ Logged("streaming", -1) /= <<>>
    /\ \E k \in Streamed : Logged("tool_execution", k) /= <<>>

\* the stream call entered the short-circuiting middleware
ShortCircuited ==
    \E i \in 1..Len(call_log) :
        call_log[i] = LogEntry("streaming", "enter", Short.tag, -1)

\* the messages the call has yielded to its caller
Delivered == [i \in 1..Len(yielded) |-> yielded[i].message]

\* C12: when a streaming middleware yields events without calling next, the
\* stream call makes no provider call, executes no tool and enters neither
\* an inner middleware nor a terminal handler, and the caller receives the
\* events of the middleware, in order and unmodified, the app-role event
\* included
C12_ShortCircuit ==
    ShortCircuited =>
        /\ pc \in {"short", "done"}
        /\ stream_calls = <<>>
        /\ tool_tasks = <<>> /\ func_calls = {}
        /\ \A i \in 1..Len(call_log) :
               /\ call_log[i].event /= "terminal"
               /\ call_log[i].stack \notin {"stream_iteration",
                                            "tool_execution"}
        /\ \A j \in 1..Len(_streaming) :
               (\E i \in 1..(j - 1) : _streaming[i] = Short)
                   => Logged("streaming", -1) =
                          SelectSeq(Logged("streaming", -1),
                                    LAMBDA e : e.tag /= _streaming[j].tag)
        /\ IsPrefix(Delivered, ShortEvents)
        /\ pc = "done" => Delivered = ShortEvents

\* the call ended behind a short-circuiting middleware that has a
\* middleware inside it: the caller has the aggregate with its tool use and
\* the app message
C12_Witness ==
    /\ ShortCircuited
    /\ pc = "done"
    /\ \E j \in 2..Len(_streaming) : _streaming[j - 1] = Short
    /\ Len(yielded) = 2
    /\ yielded[1].message.content[2].type = "tool_use"
    /\ yielded[2].message.role = "app"

\* the stream call entered the history middleware
HistoryEntered ==
    \E i \in 1..Len(call_log) :
        call_log[i] = LogEntry("streaming", "enter", History.tag, -1)

\* how often the messages of db_history are in a message list
Spliced(messages) ==
    Cardinality({i \in 1..Len(messages) : messages[i] = db_history[1]})

\* C13: a streaming middleware that reads ctx.iteration on its StreamContext
\* to splice the prior history sees iteration 0 once in a stream call: the
\* call does not fail on the attribute, and the history is exactly once in
\* the messages of every provider call
C13_HistoryOnce ==
    HistoryEntered =>
        /\ error /= "AttributeError"
        /\ \A c \in 1..Len(stream_calls) :
               Spliced(stream_calls[c].messages) = 1

\* the call in progress was made with the identifier that the router
\* middleware replaces, and has entered that middleware
Routed ==
    /\ model \in {RoutedFrom, RoutedTo}
    /\ \E i \in 1..Len(call_log) :
           call_log[i] = LogEntry("streaming", "enter", Router.tag, -1)

\* C14: when a streaming middleware assigns ctx.model before it calls next,
\* every iteration of that call resolves the provider from the assigned
\* identifier: no step of the call invokes the factory of the provider the
\* original identifier names or caches an instance of it, and every provider
\* call of the call goes to the instance of the assigned provider, with the
\* assigned model name
C14_MutatedModelRoutes ==
    [][Routed' =>
           /\ model' = RoutedTo
           /\ factory_calls'[Factory(RoutedFrom[1], "f1")] =
                  factory_calls[Factory(RoutedFrom[1], "f1")]
           /\ (RoutedFrom[1] \in DOMAIN _providers')
                  = (RoutedFrom[1] \in DOMAIN _providers)
           /\ \A c \in 1..Len(stream_calls') :
                  /\ stream_calls'[c].provider.factory
                         = Factory(RoutedTo[1], "f1")
                  /\ stream_calls'[c].provider = _providers'[RoutedTo[1]]
                  /\ stream_calls'[c].model = RoutedTo[3]]_vars

\* a rerouted call ended after two iterations
C14_Witness ==
    /\ Routed
    /\ pc = "done"
    /\ {0, 1} \subseteq Streamed
    /\ factory_calls[Factory(RoutedTo[1], "f1")] = 1
    /\ factory_calls[Factory(RoutedFrom[1], "f1")] = 0

\* C15: stream and send called with a message list without a message of
\* role user raise the validation failure, and the step that raises it has
\* invoked no factory, called no provider, normalized and run no tool, built
\* no handler and entered no middleware; a call that is accepted works on a
\* list with a user message
C15_UserMessageRequired ==
    [][(pc = "idle" /\ pc' /= "idle") =>
           \/ /\ pc' = "failed"
              /\ error' = "ValueError"
              /\ error_text' = NoUserMessage
              /\ UNCHANGED <<registry, stacks, handlers, frames, call_log,
                             stream_calls, tool_tasks, func_calls, yielded,
                             current_history>>
           \/ /\ error_text' /= NoUserMessage
              /\ current_history' /= <<>>
                     => \E i \in 1..Len(current_history') :
                            current_history'[i].role = "user"]_vars

\* a call without a user message was refused on an engine whose earlier
\* call went through middlewares to a provider
C15_Witness ==
    /\ pc = "failed"
    /\ error_text = NoUserMessage
    /\ call_log = <<>>
    /\ Len(_streaming) >= 1
    /\ calls_made >= 1
    /\ \E f \in Factories : factory_calls[f] >= 1

\* the call failed on its model identifier
ModelRefused ==
    /\ pc = "failed"
    /\ error \in {"ValueError", "NotImplementedError"}
    /\ error_text /= NoUserMessage

\* C16: when stream is called with a malformed model identifier or with the
\* name of an unknown provider, the failure is raised before any iteration
\* begins: no streaming middleware and no stream-iteration middleware has
\* been entered and no StreamIterationContext has been built
C16_RefusedAtCallSite ==
    ModelRefused =>
        \A i \in 1..Len(call_log) :
            call_log[i].stack \notin {"streaming", "stream_iteration"}

\* the pieces of a model identifier around its first '/'
SlashFree(m) == \A i \in 1..Len(m) : m[i] /= "/"

FirstSlash(m) ==
    CHOOSE i \in 1..Len(m) : m[i] = "/" /\ \A j \in 1..(i - 1) : m[j] /= "/"

Before(m) == Join(SubSeq(m, 1, FirstSlash(m) - 1))

After(m) == Join(SubSeq(m, FirstSlash(m) + 1, Len(m)))

\* the step raises the failure of this type
Raises(type) == pc /= "failed" /\ pc' = "failed" /\ error' = type

\* the step calls a provider
CallsProvider == Len(stream_calls') > Len(stream_calls)

\* C17: resolving an identifier without '/' raises the validation error that
\* names the expected format and invokes no factory, and no provider is
\* called for such an identifier; an identifier with '/' is split at its
\* first '/' only: the provider registered under the part in front of it is
\* resolved and is called with all that follows it ('mock/a/b': provider
\* mock, model name a/b)
C17_SplitAtFirstSlash ==
    [][/\ (Raises("ValueError") /\ error_text' /= NoUserMessage) =>
              /\ SlashFree(model')
              /\ error_text' =
                     "Invalid model name: " \o Join(model')
                         \o ". Expected format: \"provider/model_name\"."
              /\ UNCHANGED <<registry, stream_calls>>
       /\ (SlashFree(model') /\ model' /= <<>>) =>
              /\ ~CallsProvider
              /\ pc' \in {"for", "short", "done", "failed"}
       /\ Raises("NotImplementedError") =>
              Before(model') \notin DOMAIN _provider_factories
       /\ CallsProvider =>
              LET call == stream_calls'[Len(stream_calls')]
              IN  /\ ~SlashFree(model')
                  /\ call.provider = _providers'[Before(model')]
                  /\ call.provider.factory =
                         _provider_factories[Before(model')]
                  /\ call.model = After(model')]_vars

\* after a call that was refused for its format, a provider was called for
\* an identifier with two '/'
C17_Witness ==
    /\ previous.error = "ValueError"
    /\ previous.error_text /= NoUserMessage
    /\ Len(model) = 5
    /\ stream_calls /= <<>>
    /\ stream_calls[1].provider.factory = Factory("mock", "f1")
    /\ stream_calls[1].model = "a/b"

\* the identifier of the call has a '/', and nothing in front of it or
\* nothing behind it
PartMissing ==
    /\ model /= <<>>
    /\ ~SlashFree(model)
    /\ Before(model) = "" \/ After(model) = ""

\* C18: an identifier whose provider part or whose model part is empty is
\* rejected with the validation failure, and no provider is instantiated or
\* called for it
C18_PartsRequired ==
    (PartMissing /\ ~HistoryEntered) =>
        /\ stream_calls = <<>>
        /\ pc = "failed" => error = "ValueError"
        /\ pc \in {"for", "short", "done", "failed"}

\* the provider part of the identifier of the call names neither a cached
\* instance nor a registered factory
UnknownProvider ==
    /\ model /= <<>>
    /\ ~SlashFree(model)
    /\ Before(model) \notin DOMAIN _providers
    /\ Before(model) \notin DOMAIN _provider_factories

\* C19: resolving name/model where the name has neither a cached instance
\* nor a registered factory raises the not-supported failure, and the
\* factory map and the provider cache are as they were: the failure comes
\* only for such a name, no provider is called for it, and the step that
\* raises it changes neither map and invokes no factory
C19_UnknownProvider ==
    [][/\ Raises("NotImplementedError") =>
              /\ UnknownProvider'
              /\ error_text' =
                     "Provider \"" \o Before(model') \o "\" is not supported."
              /\ UNCHANGED <<_providers, _provider_factories, factory_calls>>
       /\ UnknownProvider' =>
              /\ ~CallsProvider
              /\ pc' \in {"for", "short", "done", "failed"}
              /\ (pc = "for" /\ pc' = "failed") =>
                     error' = "NotImplementedError"]_vars

\* the call for unknown/model was refused on an engine that holds a cached
\* provider from an earlier call
C19_Witness ==
    /\ pc = "failed"
    /\ error = "NotImplementedError"
    /\ model = <<"unknown", "/", "model">>
    /\ "mock" \in DOMAIN _providers
    /\ stream_calls = <<>>

\* C20: when the stream of the provider raises during an iteration, the
\* failure is what the call raises to its caller; the step leaves what was
\* yielded, the provider cache, the factories and the middleware stacks as
\* they were, and no tool task exists; the failed call calls no provider and
\* runs no tool any more: its only step is the return to the caller, with
\* the engine unchanged, from where the next call starts
C20_ProviderFailure ==
    [][/\ Raises("RuntimeError") =>
              /\ pc = "pulling"
              /\ tool_tasks' = <<>>
              /\ UNCHANGED <<registry, stacks, yielded, stream_calls,
                             func_calls, current_history>>
       /\ (pc = "failed" /\ error = "RuntimeError") =>
              /\ pc' = "idle"
              /\ previous'.error = "RuntimeError"
              /\ UNCHANGED <<registry, stacks>>]_vars

\* after a call in which the provider raised, a stream call on the same
\* engine went through the middlewares to the cached provider and ended
C20_Witness ==
    /\ previous.error = "RuntimeError"
    /\ pc = "done"
    /\ Len(_streaming) >= 1 /\ CallNext(_streaming)
    /\ Logged("streaming", -1) /= <<>>
    /\ stream_calls /= <<>>
    /\ stream_calls[1].provider = Instance(Factory("mock", "f1"), 1)
    /\ Len(yielded) >= 1

\* the positions of the assistant messages of a list of messages
AssistantsOf(messages) ==
    {i \in 1..Len(messages) : messages[i].role = "assistant"}

\* the position of the c-th assistant message of a list of messages
AssistantAt(messages, c) ==
    CHOOSE i \in AssistantsOf(messages) :
        Cardinality({j \in AssistantsOf(messages) : j <= i}) = c

HasToolUse(message) ==
    \E b \in 1..Len(message.content) : message.content[b].type = "tool_use"

MaxHandlerUses == 2

\* metadata=None, and a dict
NoMetadata == [is_none |-> TRUE, items |-> {}]

Dict(items) == [is_none |-> FALSE, items |-> items]

Keys(items) == {pair[1] : pair \in items}

\* @tool(metadata=...): Tool.from_func replaces a missing dict by {}
StaticMetadata ==
    {Dict({}),
     Dict({<<"conflict", "static_wins?">>}),
     Dict({<<"static_key", "static_value">>, <<"conflict", "static_wins?">>})}

\* ToolUse(metadata=...)
RuntimeMetadata ==
    {NoMetadata, Dict({}),
     Dict({<<"conflict", "runtime_wins!">>}),
     Dict({<<"runtime_key", "runtime_value">>,
           <<"conflict", "runtime_wins!">>})}

\* {**runtime, **static}: the static value wins
MergedStaticWins(static, runtime) ==
    static \cup {pair \in runtime : pair[1] \notin Keys(static)}

\* {**static, **runtime}: the pairs of runtime, and those of static whose
\* key runtime does not have
Merged(static, runtime) ==
    runtime \cup {pair \in static : pair[1] \notin Keys(runtime)}

\* tool_use.get('metadata') or {}
OrEmpty(metadata) == IF metadata.is_none THEN {} ELSE metadata.items

\* tool_map = {tool.name: tool for tool in ctx.tools}; tool_map.get(name)
ToolMap(tools) == {tools[i].name : i \in 1..Len(tools)}

ToolNamed(tools, name) ==
    tools[CHOOSE i \in 1..Len(tools) :
              /\ tools[i].name = name
              /\ \A j \in (i + 1)..Len(tools) : tools[j].name /= name]

\* the tool uses of the context when the handler has returned: the metadata
\* of a tool use whose tool was found is replaced, the others are as they
\* were
Handled(tool_uses, tools) ==
    [i \in 1..Len(tool_uses) |->
        IF tool_uses[i].name \notin ToolMap(tools)
        THEN tool_uses[i]
        ELSE [tool_uses[i] EXCEPT
                 !.metadata =
                     Dict(Merged(ToolNamed(tools, tool_uses[i].name)
                                     .metadata.items,
                                 OrEmpty(tool_uses[i].metadata)))]]

\* the tool uses a context may hold: the i-th has the id i
HandlerToolUses ==
    UNION {[1..n -> ToolNames \X RuntimeMetadata] : n \in 1..MaxHandlerUses}

\* BaseToolExecutionHandler.__call__(ctx): the tasks are returned and the
\* tool uses of the context carry the merged metadata
TerminalHandler ==
    /\ pc = "idle"
    /\ context.tool_uses /= <<>>
    /\ tool_tasks = <<>>
    /\ tool_tasks' = BaseToolExecutionHandler(context.tool_uses,
                                              ToolMap(context.tools))
    /\ context' = [context EXCEPT
                      !.tool_uses = Handled(context.tool_uses, context.tools)]
    /\ UNCHANGED <<timing, abandon, standalone>>
    /\ UNCHANGED <<registry, callers, mw, call_messages, returned, closing,
                   pc, error, ctx, iteration, current_history, tool_uses_by_parent,
                   raced, func_calls, results_by_parent, yielded,
                   stream_calls, next_id, counters>>

\* a context with one or more tool uses, for tool_1 or for a tool that is
\* not in the tool set, and with the tool set [tool_1] or []
InitHandler ==
    /\ InitCallers
    /\ InitMiddleware
    /\ InitLoop
    /\ call_messages = <<>>
    /\ returned = None
    /\ InitClosing
    /\ InitTiming
    /\ InitWire
    /\ InitReflection
    /\ InitCallerView
    /\ \E uses \in HandlerToolUses, tools \in
              {<<>>} \cup {<<[name |-> "tool_1", metadata |-> static]>> :
                              static \in StaticMetadata} :
           context =
               [tool_uses |->
                    [i \in 1..Len(uses) |->
                        [type |-> "tool_use", id |-> i, name |-> uses[i][1],
                         metadata |-> uses[i][2]]],
                tools |-> tools]
    /\ _providers = [n \in {} |-> Instance(None, 0)]
    /\ _provider_factories =
           [n \in {"anthropic", "openai"} |->
               IF n = "anthropic"
               THEN "_anthropic_provider_factory"
               ELSE "_openai_provider_factory"]
    /\ factory_calls = [f \in Factories |-> 0]
    /\ registrations =
           [n \in ProviderNames |->
               IF n \in DOMAIN _provider_factories
               THEN <<_provider_factories[n]>> ELSE <<>>]

NextHandler == TerminalHandler

SpecHandler == InitHandler /\ [][NextHandler]_vars

\* C27: when the terminal handler is called, the metadata of every tool use
\* whose tool is found becomes a dict with the keys of the tool's static
\* metadata and of the runtime metadata of the tool use, each key with the
\* runtime value if the tool use had one and with the static value
\* otherwise; the rest of the tool use, the tool uses whose tool is not
\* found, and the tools with their static metadata are as they were
C27_MetadataMerge ==
    [][TerminalHandler =>
          /\ context'.tools = context.tools
          /\ Len(context'.tool_uses) = Len(context.tool_uses)
          /\ \A i \in 1..Len(context.tool_uses) :
                 LET before == context.tool_uses[i]
                     after == context'.tool_uses[i]
                     found == {t \in 1..Len(context.tools) :
                                  context.tools[t].name = before.name}
                 IN  /\ after.id = before.id
                     /\ after.name = before.name
                     /\ after.type = before.type
                     /\ found = {} => after.metadata = before.metadata
                     /\ \A t \in found :
                            LET static == context.tools[t].metadata.items
                                runtime == IF before.metadata.is_none
                                           THEN {}
                                           ELSE before.metadata.items
                            IN  /\ ~after.metadata.is_none
                                /\ Keys(after.metadata.items)
                                       = Keys(static) \cup Keys(runtime)
                                /\ \A pair \in after.metadata.items :
                                       IF pair[1] \in Keys(runtime)
                                       THEN pair \in runtime
                                       ELSE pair \in static
                                /\ Cardinality(after.metadata.items) =
                                       Cardinality(Keys(after.metadata.items))
    ]_vars

\* the handler has returned: a tool use of tool_1 carries the static key and
\* the runtime value of the key both dicts have, a tool use of the missing
\* tool still has no metadata, and the tool has its static metadata
C27_Witness ==
    /\ tool_tasks /= <<>>
    /\ \E i, j \in 1..Len(context.tool_uses) :
           /\ context.tool_uses[i].metadata =
                  Dict({<<"static_key", "static_value">>,
                        <<"runtime_key", "runtime_value">>,
                        <<"conflict", "runtime_wins!">>})
           /\ context.tool_uses[j].name = "ghost_tool"
           /\ context.tool_uses[j].metadata = NoMetadata
    /\ context.tools[1].metadata =
           Dict({<<"static_key", "static_value">>,
                 <<"conflict", "static_wins?">>})

(***************************************************************************)
(* execute_tool and close on one engine (SpecOps): the tool-execution      *)
(* stack is configured, then tools are executed manually, providers are    *)
(* resolved and the engine is closed, one call after the other.            *)
(***************************************************************************)
\* bt.tool_execution.use(m), before the first call
ToolExecutionUse(m) ==
    /\ pc = "idle" /\ calls_made = 0
    /\ Len(_tool_execution) < MaxMiddleware
    /\ m = Pass(Len(_tool_execution) + 1)
    /\ _tool_execution' = use(_tool_execution, m)
    /\ UNCHANGED <<registry, loop, callers, facade, _streaming,
                   _stream_iteration, handlers, frames, pending, call_log,
                   error_text, calls_made, previous>>

\* the text of the failure execute_tool raises
ToolExecutionFailed(text) == "Tool execution failed: " \o text

\* the tools that are executed manually, and the metadata argument
ManualTools ==
    {[name |-> "tool_1", metadata |-> static] : static \in StaticMetadata}

ManualMetadata == {NoMetadata, Dict({<<"conflict", "runtime_wins!">>})}

\* BigTalk.execute_tool up to asyncio.gather: the tool is normalized, the
\* ToolUse and the ToolExecutionContext are built, the handler of the
\* tool-execution stack is built and awaited
execute_tool(tool, metadata) ==
    /\ pc = "idle"
    /\ LET tool_use == [type |-> "tool_use", id |-> next_id,
                        name |-> tool.name, metadata |-> metadata]
           handler == build(_tool_execution, BaseToolExecutionTerminal)
           called == Call(handler, "tool_execution",
                          [fields |-> ToolExecutionContextFields,
                           model |-> <<>>, messages |-> <<>>,
                           iteration |-> 0])
       IN  /\ context' = [tool_uses |-> Handled(<<tool_use>>, <<tool>>),
                          tools |-> <<tool>>]
           /\ tool_tasks' = BaseToolExecutionHandler(<<tool_use>>,
                                                     ToolMap(<<tool>>))
           /\ _tool_execution_handler' = handler
           /\ call_log' = call_log \o <<Normalized>> \o called.log
                              \o Exits(called.frames, "tool_execution", 0)
    /\ pc' = "tool_gather"
    /\ next_id' = next_id + 1
    /\ UNCHANGED <<timing, abandon, standalone>>
    /\ UNCHANGED <<registry, callers, stacks, _stream_iteration_handler,
                   frames, pending, error_text, calls_made, previous,
                   call_messages, returned, closing, error, ctx, iteration,
                   current_history, tool_uses_by_parent, raced, func_calls,
                   results_by_parent, yielded, stream_calls, counters>>

\* the error text is returned like a result
ExecuteToolReturnsError ==
    /\ pc = "tool_gather"
    /\ \A i \in 1..Len(tool_tasks) : tool_tasks[i].state = "done"
    /\ LET results == GatherResults(tool_tasks)
       IN  /\ pc' = "done"
           /\ returned' = IF results = <<>> THEN None ELSE results[1].result
    /\ tool_tasks' = <<>>
    /\ UNCHANGED <<timing, abandon, standalone>>
    /\ UNCHANGED <<registry, callers, mw, call_messages, context, closing,
                   error, ctx, iteration, current_history,
                   tool_uses_by_parent, raced, func_calls,
                   results_by_parent, yielded, stream_calls, next_id,
                   counters>>

\* asyncio.gather returns in execute_tool: None without results, the
\* failure 'Tool execution failed: ...' for an is_error result, else the
\* result payload
ExecuteToolReturn ==
    /\ pc = "tool_gather"
    /\ \A i \in 1..Len(tool_tasks) : tool_tasks[i].state = "done"
    /\ LET results == GatherResults(tool_tasks)
       IN  IF results = <<>>
           THEN /\ pc' = "done"
                /\ returned' = None
                /\ UNCHANGED <<error, error_text>>
           ELSE IF results[1].type = "exception"
           THEN /\ pc' = "failed"
                /\ error' = "ToolError"
                /\ UNCHANGED <<returned, error_text>>
           ELSE IF results[1].is_error
           THEN /\ pc' = "failed"
                /\ error' = "Exception"
                /\ error_text' = ToolExecutionFailed(results[1].result)
                /\ UNCHANGED returned
           ELSE /\ pc' = "done"
                /\ returned' = results[1].result
                /\ UNCHANGED <<error, error_text>>
    /\ tool_tasks' = <<>>
    /\ UNCHANGED <<timing, abandon, standalone>>
    /\ UNCHANGED <<registry, callers, stacks, handlers, frames, pending,
                   call_log, calls_made, previous, call_messages, context,
                   closing, ctx, iteration, current_history,
                   tool_uses_by_parent, raced, func_calls,
                   results_by_parent, yielded, stream_calls, next_id,
                   counters>>

\* a stream or send call resolves the provider `name`: self._get_provider
ResolveProvider(name) ==
    /\ pc = "idle"
    /\ name \notin DOMAIN _providers
    /\ LET got == _get_provider(name, _providers, _provider_factories,
                                factory_calls)
       IN  /\ got.error = None
           /\ _providers' = got.providers
           /\ factory_calls' = got.calls
    /\ UNCHANGED <<_provider_factories, loop, callers, mw, facade>>

\* BigTalk.close up to the await: asyncio.gather makes a task of
\* provider.close() for every cached provider
close ==
    /\ pc = "idle"
    /\ pc' = "closing"
    /\ close_tasks' = [called |-> TRUE,
                       state |-> [n \in DOMAIN _providers |-> "pending"]]
    /\ UNCHANGED <<timing, abandon, standalone>>
    /\ UNCHANGED <<registry, callers, mw, call_messages, returned, context,
                   close_calls, exceptions, error, ctx, iteration,
                   current_history, tasks, tool_uses_by_parent,
                   results_by_parent, yielded, stream_calls, next_id,
                   counters>>

\* what provider.close() does when it is awaited
CloseOutcomes == {"returned", "raised"}

\* the close() of one provider runs: it returns or it raises
ProviderClose(name) ==
    /\ pc = "closing"
    /\ name \in DOMAIN close_tasks.state
    /\ close_tasks.state[name] = "pending"
    /\ \E outcome \in CloseOutcomes :
           close_tasks' = [close_tasks EXCEPT !.state[name] = outcome]
    /\ close_calls' = [close_calls EXCEPT ![name] = @ + 1]
    /\ UNCHANGED <<timing, abandon, standalone>>
    /\ UNCHANGED <<registry, loop, callers, mw, call_messages, returned,
                   context, exceptions>>

\* gather without return_exceptions: the first failure is raised alone
CloseReturnFirst ==
    /\ pc = "closing"
    /\ \/ \E n \in DOMAIN close_tasks.state : close_tasks.state[n] = "raised"
       \/ \A n \in DOMAIN close_tasks.state : close_tasks.state[n] /= "pending"
    /\ IF \E n \in DOMAIN close_tasks.state : close_tasks.state[n] = "raised"
       THEN /\ pc' = "failed"
            /\ error' = "RuntimeError"
            /\ exceptions' =
                   {CHOOSE n \in DOMAIN close_tasks.state :
                        close_tasks.state[n] = "raised"}
       ELSE /\ pc' = "done"
            /\ UNCHANGED <<error, exceptions>>
    /\ UNCHANGED <<timing, abandon, standalone>>
    /\ UNCHANGED <<registry, callers, mw, call_messages, returned, context,
                   close_tasks, close_calls, ctx, iteration, current_history,
                   tasks, tool_uses_by_parent, results_by_parent, yielded,
                   stream_calls, next_id, counters>>

\* the cache is emptied when close ends
CloseReturnEvicting ==
    /\ pc = "closing"
    /\ \A n \in DOMAIN close_tasks.state : close_tasks.state[n] /= "pending"
    /\ LET failed == {n \in DOMAIN close_tasks.state :
                         close_tasks.state[n] = "raised"}
       IN  IF failed /= {}
           THEN /\ pc' = "failed"
                /\ error' = "ExceptionGroup"
                /\ exceptions' = failed
           ELSE /\ pc' = "done"
                /\ UNCHANGED <<error, exceptions>>
    /\ _providers' = [n \in {} |-> Instance(None, 0)]
    /\ UNCHANGED <<timing, abandon, standalone>>
    /\ UNCHANGED <<_provider_factories, factory_calls, callers, mw,
                   call_messages, returned, context,
                   close_tasks, close_calls, ctx, iteration, current_history,
                   tasks, tool_uses_by_parent, results_by_parent, yielded,
                   stream_calls, next_id, counters>>

\* asyncio.gather(..., return_exceptions=True) returns when every close()
\* has ended; the results that are exceptions are raised as one
\* ExceptionGroup
CloseReturn ==
    /\ pc = "closing"
    /\ \A n \in DOMAIN close_tasks.state : close_tasks.state[n] /= "pending"
    /\ LET failed == {n \in DOMAIN close_tasks.state :
                         close_tasks.state[n] = "raised"}
       IN  IF failed /= {}
           THEN /\ pc' = "failed"
                /\ error' = "ExceptionGroup"
                /\ exceptions' = failed
           ELSE /\ pc' = "done"
                /\ UNCHANGED <<error, exceptions>>
    /\ UNCHANGED <<timing, abandon, standalone>>
    /\ UNCHANGED <<registry, callers, mw, call_messages, returned, context,
                   close_tasks, close_calls, ctx, iteration, current_history,
                   tasks, tool_uses_by_parent, results_by_parent, yielded,
                   stream_calls, next_id, counters>>

NextOps ==
    \/ \E m \in Passes : ToolExecutionUse(m)
    \/ \E tool \in ManualTools, metadata \in ManualMetadata :
           execute_tool(tool, metadata)
    \/ \E i \in 1..Len(tool_tasks) : RunToolTask(i)
    \/ ExecuteToolReturn
    \/ \E name \in {"mock", "provB"} : ResolveProvider(name)
    \/ close
    \/ \E name \in ProviderNames : ProviderClose(name)
    \/ CloseReturn
    \/ StreamReturn

SpecOps == InitMw /\ [][NextOps]_vars

\* an execute_tool call has awaited the tool-execution handler
ExecuteToolCalled == context.tool_uses /= <<>>

CloseEnded ==
    /\ close_tasks.called
    /\ \A n \in DOMAIN close_tasks.state : close_tasks.state[n] /= "pending"

\* C24: close awaits close() once on every cached provider and on no other,
\* also when the close() of another one has raised; it builds no provider
\* and invokes no factory; it ends only when every close() has ended, and it
\* raises exactly if a close() raised: one ExceptionGroup that holds the
\* failure of every provider whose close() raised
C24_CloseAll ==
    /\ \A n \in ProviderNames :
           n \notin DOMAIN _providers => close_calls[n] = 0
    /\ \A f \in Factories :
           factory_calls[f] =
               Cardinality({n \in DOMAIN _providers :
                               _providers[n].factory = f})
    /\ close_tasks.called =>
           /\ DOMAIN close_tasks.state = DOMAIN _providers
           /\ pc \in {"closing", "done", "failed"}
           /\ pc \in {"done", "failed"} => CloseEnded
           /\ pc = "done" =>
                  /\ \A n \in DOMAIN _providers :
                         close_tasks.state[n] = "returned"
                  /\ exceptions = {} /\ error = None
           /\ pc = "failed" =>
                  /\ error = "ExceptionGroup"
                  /\ exceptions /= {}
                  /\ exceptions = {n \in DOMAIN _providers :
                                      close_tasks.state[n] = "raised"}
           /\ \A n \in DOMAIN _providers :
                  close_tasks.state[n] /= "pending" => close_calls[n] >= 1

\* both cached providers were closed although the close() of one of them
\* raised, and close raised the ExceptionGroup with that failure
C24_Witness ==
    /\ close_tasks.called
    /\ pc = "failed"
    /\ DOMAIN _providers = {"mock", "provB"}
    /\ Cardinality(exceptions) = 1
    /\ \E n \in DOMAIN _providers : close_tasks.state[n] = "returned"
    /\ \A n \in DOMAIN _providers : close_calls[n] >= 1

(***************************************************************************)
(* One stream call with tool tasks on the event loop and a caller that may *)
(* stop pulling (SpecTasks).  asyncio.gather makes a task of every         *)
(* awaitable; the loop gives every task its first step, in the order of    *)
(* creation, before it waits for a timer.  A tool function is async: it    *)
(* awaits a sleep and then returns or raises.                              *)
(***************************************************************************)
\* the longest sleep of a tool function
MaxDelay == 2

\* await asyncio.sleep(d) in a tool function
Delays == {1, MaxDelay}

\* the timers of the tool task at position i
TimersOf(i) == {t \in timers : t.tool_use_id = tool_tasks[i].tool_use_id}

\* for task in tasks: await task, in turn
StartableInTurn(i) ==
    \A j \in 1..(i - 1) : tool_tasks[j].state = "done"

\* the tasks created before task i have had their first step
Startable(i) ==
    \A j \in 1..(i - 1) : tool_tasks[j].state = "done" \/ TimersOf(j) /= {}

\* the first step of a tool task: _error_result returns at once,
\* _execute_tool awaits tool.func(**params) and is suspended in its sleep
StartToolTask(i) ==
    /\ pc = "gather"
    /\ tool_tasks[i].state = "pending"
    /\ TimersOf(i) = {}
    /\ Startable(i)
    /\ IF tool_tasks[i].kind = "_error_result"
       THEN /\ tool_tasks' = [tool_tasks EXCEPT ![i].state = "done"]
            /\ timers' = timers \cup
                   {[tool_use_id |-> tool_tasks[i].tool_use_id,
                     iteration |-> iteration, started |-> clock,
                     until |-> clock]}
       ELSE /\ \E d \in Delays :
                   timers' = timers \cup
                       {[tool_use_id |-> tool_tasks[i].tool_use_id,
                         iteration |-> iteration, started |-> clock,
                         until |-> clock + d]}
            /\ UNCHANGED tool_tasks
    /\ UNCHANGED <<registry, callers, mw, call_messages, returned, context,
                   closing, standalone, clock, abandon, pc, error, ctx, iteration,
                   current_history, tool_uses_by_parent, raced, func_calls,
                   results_by_parent, yielded, stream_calls, next_id,
                   counters>>

\* a step is ready: a task that has not started, or one whose sleep is over
Ready(i) ==
    /\ tool_tasks[i].state = "pending"
    /\ \/ TimersOf(i) = {} /\ Startable(i)
       \/ \E t \in TimersOf(i) : t.until <= clock

\* the loop has nothing to run: it waits for the next timer
Tick ==
    /\ pc = "gather"
    /\ \A i \in 1..Len(tool_tasks) : ~Ready(i)
    /\ \E i \in 1..Len(tool_tasks) :
           /\ tool_tasks[i].state = "pending"
           /\ \E t \in TimersOf(i) :
                  /\ \A j \in 1..Len(tool_tasks) :
                         tool_tasks[j].state = "pending" =>
                             \A u \in TimersOf(j) : t.until <= u.until
                  /\ clock' = t.until
    /\ UNCHANGED <<registry, loop, callers, mw, call_messages, returned,
                   context, closing, standalone, timers, abandon>>

\* the sleep of a tool function is over: it returns or raises, and
\* _execute_tool returns the result
FinishToolTask(i) ==
    /\ pc = "gather"
    /\ tool_tasks[i].state = "pending"
    /\ \E t \in TimersOf(i) : t.until <= clock
    /\ \E outcome \in Outcomes :
           /\ tool_tasks' =
                  [tool_tasks EXCEPT
                      ![i].state = "done",
                      ![i].result = _execute_tool(tool_tasks[i], outcome)]
           /\ func_calls' =
                  func_calls \cup
                      {[tool_use_id |-> tool_tasks[i].tool_use_id,
                        name |-> tool_tasks[i].name,
                        iteration |-> iteration,
                        outcome |-> outcome]}
    /\ raced' = (raced \/ \E j \in 1..(i - 1) : tool_tasks[j].state = "pending")
    /\ UNCHANGED <<registry, callers, mw, facade, pc, error, ctx, iteration,
                   current_history, tool_uses_by_parent, results_by_parent,
                   yielded, stream_calls, next_id, counters>>

\* the generators of a stream call on empty stacks, outermost first
AtPipelineYield ==
    <<"BigTalk.stream", "BaseStreamHandler", "BaseStreamIterationHandler",
      "provider.stream">>

AtToolMessageYield == <<"BigTalk.stream", "BaseStreamHandler">>

\* the caller has received a message and does not pull again; it keeps the
\* generator or drops it.  The generators stay suspended at their yield:
\* every one of them is left by `async for ...: yield message` only
Abandon(keeps) ==
    /\ abandoned = "no"
    /\ yielded /= <<>>
    /\ \/ /\ pc = "pulling"
          /\ Len(yielded) > stream_calls[Len(stream_calls)].yielded
          /\ suspended' = AtPipelineYield
       \/ /\ pc \in {"emit", "for"}
          /\ yielded[Len(yielded)].message.role = "tool"
          /\ suspended' = AtToolMessageYield
    /\ abandoned' = IF keeps THEN "kept" ELSE "dropped"
    /\ pc' = "abandoned"
    /\ UNCHANGED <<registry, callers, mw, call_messages, returned, context,
                   closing, standalone, timing, error, ctx, iteration, current_history,
                   tool_uses_by_parent, tasks, results_by_parent, yielded,
                   stream_calls, next_id, counters>>

\* the interpreter finalizes the outermost generator nobody refers to: the
\* event loop's hook runs aclose() on it, GeneratorExit leaves its frame and
\* the generator it iterated loses its last reference
Finalize ==
    /\ abandoned = "dropped"
    /\ suspended /= <<>>
    /\ suspended' = Tail(suspended)
    /\ UNCHANGED <<registry, loop, callers, mw, call_messages, returned,
                   context, closing, standalone, timing, abandoned>>

NextTasks ==
    \/ \E m \in ModelIds, n \in 0..MaxIterations : stream(m, InputMessages, n)
    \/ ForIteration
    \/ AdapterDelta
    \/ AdapterAggregate
    \/ StreamRaises
    \/ AdapterEnd
    \/ \E i \in 1..Len(tool_tasks) : StartToolTask(i)
    \/ Tick
    \/ \E i \in 1..Len(tool_tasks) : FinishToolTask(i)
    \/ Gather
    \/ YieldToolMessage
    \/ \E keeps \in BOOLEAN : Abandon(keeps)
    \/ Finalize

SpecTasks == Init /\ [][NextTasks]_vars

\* the timers of the tool tasks of iteration k
TimersIn(k) == {t \in timers : t.iteration = k}

Finalized == abandoned = "kept" \/ suspended = <<>>

\* C21: when the caller has stopped pulling after a yielded event and
\* nothing is left to run for the call, no provider call was made since, no
\* tool task of the call is pending, and the provider stream of the current
\* iteration is closed, that is, the generator of provider.stream is not
\* left suspended
C21_AbandonCloses ==
    (abandoned /= "no" /\ Finalized) =>
        /\ pc = "abandoned"
        /\ \A i \in 1..Len(tool_tasks) : tool_tasks[i].state /= "pending"
        /\ \A g \in 1..Len(suspended) : suspended[g] /= "provider.stream"

(***************************************************************************)
(* The provider adapters, chunk by chunk (SpecWire): one stream or send    *)
(* call on AnthropicProvider or OpenAIProvider (llm/anthropic.py,          *)
(* llm/openai.py).  A string is a TLA+ string, ''.join is Join; None and   *)
(* the empty string are both falsy and are both written "".                *)
(***************************************************************************)
\* chunks one SDK stream delivers
MaxChunks == 4

\* message_id = str(uuid4()): the id of the messages of one call
message_id == 1000

\* last_user_message_id = None
NoId == 0 - 1

\* the blocks an adapter builds: Text(type, text) and ToolUse(type, id, name,
\* params, metadata); params is the set of keys of the parsed object
TextBlock(text) ==
    [type |-> "text", id |-> "", name |-> "", text |-> text, params |-> {},
     metadata |-> None]

ToolUseBlock(id, name, params) ==
    [type |-> "tool_use", id |-> id, name |-> name, text |-> "",
     params |-> params,
     metadata |-> IF name \in ToolSet THEN "metadata" ELSE None]

\* json.loads: the parsed object, or JSONDecodeError
json_loads(text) ==
    CASE text = "{}" -> [error |-> None, value |-> {}]
      [] text = "{k}" -> [error |-> None, value |-> {"k"}]
      [] OTHER -> [error |-> "JSONDecodeError", value |-> {}]

\* OpenAIProvider._build_tool_use_block
_build_tool_use_block(tool_id, tool_name, arg_parts) ==
    LET parsed == json_loads(Join(arg_parts))
    IN  [error |-> parsed.error,
         block |-> ToolUseBlock(tool_id, tool_name, parsed.value)]

\* the id of the last message with the role, NoId when there is none
LastWithRole(messages, role) ==
    LET at == {i \in 1..Len(messages) : messages[i].role = role}
    IN  IF at = {} THEN NoId
        ELSE messages[CHOOSE i \in at : \A j \in at : j <= i].id

\* OpenAIProvider._convert_messages: last_user_message_id is assigned in the
\* branch of role 'tool', and in no other
openai_last_user_message_id(messages) == LastWithRole(messages, "tool")

\* AnthropicProvider._convert_messages: last_user_message_id is assigned in
\* the branch of role 'user'
anthropic_last_user_message_id(messages) == LastWithRole(messages, "user")

last_user_message_id ==
    IF adapter = "openai" THEN openai_last_user_message_id(wire_messages)
    ELSE anthropic_last_user_message_id(wire_messages)

\* the argument `messages` of an adapter call: a request; a request whose
\* tool use was answered; a second request after that; and its answer
WireInputs ==
    LET first == <<UserMessage(1),
                   AssistantMessage(2, 1, MakeContent(<<"tool_1">>, 2), TRUE),
                   ToolMessage(3, 2, <<ToolResult(21, "ok", FALSE)>>)>>
        second == <<UserMessage(4),
                    AssistantMessage(5, 4, MakeContent(<<"tool_1">>, 5), TRUE),
                    ToolMessage(6, 5, <<ToolResult(51, "ok", FALSE)>>)>>
    IN  {<<UserMessage(1)>>, first, first \o <<UserMessage(4)>>,
         first \o second}

\* an AssistantMessage of the call
WireMessage(content, is_aggregate) ==
    AssistantMessage(message_id, last_user_message_id, content, is_aggregate)

\* the engine
engine == <<registry, loop, callers, mw, call_messages, returned, context,
            closing, timing, abandon, caller_view>>

\* everything but the adapter call
beside_adapter == <<engine, reflection>>

\* chunk.choices is empty: the chunk that carries the usage
NoChoices == [choices |-> 0, content |-> "", tool_calls |-> <<>>]

\* a chunk with one choice: delta.content and delta.tool_calls
Delta(content, tool_calls) ==
    [choices |-> 1, content |-> content, tool_calls |-> tool_calls]

ToolIndices == {0, 1}

\* the entries of delta.tool_calls: the first of a tool call carries its id
\* and its name, every one may carry a fragment of the arguments
ToolChunks ==
    {[index |-> i, id |-> IF i = 0 THEN "call_0" ELSE "call_1",
      name |-> "tool_1", arguments |-> a] :
         i \in ToolIndices, a \in {"", "{", "{}"}}
    \cup {[index |-> i, id |-> "", name |-> "", arguments |-> a] :
             i \in ToolIndices, a \in {"", "k}"}}

OpenAIChunks ==
    {NoChoices, Delta("a", <<>>), Delta("", <<>>)}
    \cup {Delta("", <<tool_chunk>>) : tool_chunk \in ToolChunks}

\* the events of the Anthropic stream: a finished content block, the end of
\* the message, anything else
AnthropicChunks ==
    {[type |-> "content_block_stop", content_block |-> b] :
         b \in {"text", "tool_use", "redacted_thinking"}}
    \cup {[type |-> t, content_block |-> ""] :
             t \in {"content_block_delta", "message_stop"}}

\* AnthropicProvider._to_block: None for a block that is neither text,
\* thinking nor tool_use
_to_block(content_block) ==
    CASE content_block = "text" ->
             [is_none |-> FALSE, block |-> TextBlock("a")]
      [] content_block = "tool_use" ->
             [is_none |-> FALSE,
              block |-> ToolUseBlock("toolu_1", "tool_1", {"k"})]
      [] OTHER -> [is_none |-> TRUE, block |-> TextBlock("")]

\* provider.stream(model, messages, tools) up to the first chunk
WireStream(a, messages) ==
    /\ wire_pc = "idle"
    /\ adapter' = a
    /\ method' = "stream"
    /\ wire_pc' = "chunks"
    /\ wire_messages' = messages
    /\ UNCHANGED <<beside_adapter, received, exhausted, text_buffer, current_tool,
                   blocks, produced, wire_error>>

\* one entry of delta.tool_calls: a different index flushes the tool call
\* that was buffered
RECURSIVE ForToolChunk(_, _)
ForToolChunk(s, tool_calls) ==
    IF tool_calls = <<>> \/ s.error /= None THEN s
    ELSE LET tool_chunk == Head(tool_calls)
             current == s.current_tool
             switch == /\ current.index /= NoTool.index
                       /\ tool_chunk.index /= current.index
             prev == _build_tool_use_block(current.id, current.name,
                                           current.args)
             flushed == IF switch THEN NoTool ELSE current
             next ==
                 [index |-> tool_chunk.index,
                  id |-> IF tool_chunk.id /= "" THEN tool_chunk.id
                         ELSE flushed.id,
                  name |-> IF tool_chunk.name /= "" THEN tool_chunk.name
                           ELSE flushed.name,
                  args |-> IF tool_chunk.arguments /= ""
                           THEN Append(flushed.args, tool_chunk.arguments)
                           ELSE flushed.args]
         IN  IF switch /\ prev.error /= None
             THEN [s EXCEPT !.error = prev.error]
             ELSE ForToolChunk(
                      [current_tool |-> next,
                       blocks |-> IF switch THEN Append(s.blocks, prev.block)
                                  ELSE s.blocks,
                       produced |->
                           IF switch
                           THEN Append(s.produced,
                                       WireMessage(<<prev.block>>, FALSE))
                           ELSE s.produced,
                       error |-> None],
                      Tail(tool_calls))

\* one turn of `async for chunk in stream` in OpenAIProvider.stream
OpenAIChunk(chunk) ==
    /\ wire_pc = "chunks"
    /\ adapter = "openai"
    /\ Len(received) < MaxChunks
    /\ received' = Append(received, chunk)
    /\ IF chunk.choices = 0
       THEN /\ wire_pc' = "failed"
            /\ wire_error' = "IndexError"
            /\ UNCHANGED <<text_buffer, current_tool, blocks, produced>>
       ELSE LET buffered == IF chunk.content /= ""
                            THEN Append(text_buffer, chunk.content)
                            ELSE text_buffer
                block == TextBlock(Join(buffered))
                flush == chunk.tool_calls /= <<>> /\ buffered /= <<>>
                s == ForToolChunk(
                         [current_tool |-> current_tool,
                          blocks |-> IF flush THEN Append(blocks, block)
                                     ELSE blocks,
                          produced |->
                              IF flush
                              THEN Append(produced,
                                          WireMessage(<<block>>, FALSE))
                              ELSE produced,
                          error |-> None],
                         chunk.tool_calls)
            IN  /\ text_buffer' = IF flush THEN <<>> ELSE buffered
                /\ current_tool' = s.current_tool
                /\ blocks' = s.blocks
                /\ produced' = s.produced
                /\ wire_error' = s.error
                /\ wire_pc' = IF s.error = None THEN "chunks" ELSE "failed"
    /\ UNCHANGED <<beside_adapter, adapter, method, wire_messages, exhausted>>

\* the chunks are exhausted: the text and the tool call that are still
\* buffered, then the aggregate
OpenAIEnd ==
    /\ wire_pc = "chunks"
    /\ adapter = "openai"
    /\ method = "stream"
    /\ exhausted' = TRUE
    /\ LET block == TextBlock(Join(text_buffer))
           flush == text_buffer /= <<>>
           blocks_1 == IF flush THEN Append(blocks, block) ELSE blocks
           produced_1 == IF flush
                         THEN Append(produced, WireMessage(<<block>>, FALSE))
                         ELSE produced
           open == current_tool.index /= NoTool.index
           last == _build_tool_use_block(current_tool.id, current_tool.name,
                                         current_tool.args)
           blocks_2 == IF open THEN Append(blocks_1, last.block) ELSE blocks_1
           produced_2 ==
               IF open
               THEN Append(produced_1, WireMessage(<<last.block>>, FALSE))
               ELSE produced_1
       IN  IF open /\ last.error /= None
           THEN /\ blocks' = blocks_1
                /\ produced' = produced_1
                /\ wire_error' = last.error
                /\ wire_pc' = "failed"
           ELSE /\ blocks' = blocks_2
                /\ produced' = Append(produced_2, WireMessage(blocks_2, TRUE))
                /\ wire_error' = None
                /\ wire_pc' = "done"
    /\ UNCHANGED <<beside_adapter, adapter, method, wire_messages, received,
                   text_buffer, current_tool>>

\* has the service sent message_stop
MessageStopped ==
    \E i \in 1..Len(received) : received[i].type = "message_stop"

\* one turn of `async for chunk in stream` in AnthropicProvider.stream; the
\* service sends nothing after message_stop
AnthropicChunk(chunk) ==
    /\ wire_pc = "chunks"
    /\ adapter = "anthropic"
    /\ Len(received) < MaxChunks
    /\ ~MessageStopped
    /\ received' = Append(received, chunk)
    /\ LET made == _to_block(chunk.content_block)
       IN  CASE chunk.type = "message_stop" ->
                    /\ produced' = Append(produced, WireMessage(blocks, TRUE))
                    /\ blocks' = <<>>
             [] chunk.type = "content_block_stop" /\ ~made.is_none ->
                    /\ blocks' = Append(blocks, made.block)
                    /\ produced' =
                           Append(produced, WireMessage(<<made.block>>, FALSE))
             [] OTHER -> UNCHANGED <<blocks, produced>>
    /\ UNCHANGED <<beside_adapter, adapter, method, wire_pc, wire_messages,
                   exhausted, text_buffer, current_tool, wire_error>>

\* the stream of the service ends with message_stop: the generator returns
AnthropicEnd ==
    /\ wire_pc = "chunks"
    /\ adapter = "anthropic"
    /\ received /= <<>>
    /\ received[Len(received)].type = "message_stop"
    /\ wire_pc' = "done"
    /\ exhausted' = TRUE
    /\ UNCHANGED <<beside_adapter, adapter, method, wire_messages, received,
                   text_buffer, current_tool, blocks, produced, wire_error>>

\* the SDK raises while the chunks are read: the connection broke
WireRaises ==
    /\ wire_pc = "chunks"
    /\ wire_pc' = "failed"
    /\ wire_error' = "APIError"
    /\ UNCHANGED <<beside_adapter, adapter, method, wire_messages, received,
                   exhausted, text_buffer, current_tool, blocks, produced>>

\* the responses of the service to send: the text and the tool calls of
\* the message
Responses == {<<"text">>, <<"text", "tool_use">>, <<"tool_use">>}

\* provider.send(model, messages, tools): one aggregate with an id of its
\* own and the parent of the call
WireSend(a, messages, response) ==
    /\ wire_pc = "idle"
    /\ adapter' = a
    /\ method' = "send"
    /\ wire_messages' = messages
    /\ produced' =
           <<AssistantMessage(
                 message_id + 1,
                 IF a = "openai" THEN openai_last_user_message_id(messages)
                 ELSE anthropic_last_user_message_id(messages),
                 [b \in 1..Len(response) |-> _to_block(response[b]).block],
                 TRUE)>>
    /\ wire_pc' = "done"
    /\ UNCHANGED <<beside_adapter, received, exhausted, text_buffer, current_tool,
                   blocks, wire_error>>

NextWire ==
    \/ \E a \in {"anthropic", "openai"}, messages \in WireInputs :
           WireStream(a, messages)
    \/ \E a \in {"anthropic", "openai"}, messages \in WireInputs,
          response \in Responses : WireSend(a, messages, response)
    \/ \E chunk \in OpenAIChunks : OpenAIChunk(chunk)
    \/ OpenAIEnd
    \/ \E chunk \in AnthropicChunks : AnthropicChunk(chunk)
    \/ AnthropicEnd
    \/ WireRaises

SpecWire == Init /\ [][NextWire]_vars

\* the messages of a stream call are deltas of one block each, then one
\* aggregate, the last message, whose content is the blocks of the deltas
\* in order; all carry one id
DeltasThenAggregate ==
    LET n == Len(produced)
    IN  /\ n >= 1
        /\ produced[n].is_aggregate
        /\ \A i \in 1..(n - 1) :
               /\ ~produced[i].is_aggregate
               /\ Len(produced[i].content) = 1
        /\ produced[n].content = [i \in 1..(n - 1) |-> produced[i].content[1]]
        /\ \A i \in 1..n : produced[i].id = produced[n].id

\* C31: for every sequence of chunks the service sends to the end, the
\* stream of an adapter yields zero or more delta messages, each with
\* is_aggregate = false and exactly one content block, followed by exactly
\* one aggregate as the last message, whose content is the sequence of the
\* delta blocks in the order they were yielded; all messages of the stream
\* carry the same id
C31_DeltasThenAggregate ==
    (/\ method = "stream"
     /\ wire_pc \in {"done", "failed"}
     /\ wire_error /= "APIError") => DeltasThenAggregate

\* the entries of delta.tool_calls of the chunks, in the order of arrival
RECURSIVE ToolCallsOf(_)
ToolCallsOf(chunks) ==
    IF chunks = <<>> THEN <<>>
    ELSE Head(chunks).tool_calls \o ToolCallsOf(Tail(chunks))

\* the entries that belong to the tool call with index i
EntriesOf(i) ==
    LET OfIndex(tool_chunk) == tool_chunk.index = i
    IN  SelectSeq(ToolCallsOf(received), OfIndex)

\* the argument fragments of the tool call with index i, joined in the
\* order of arrival
ArgumentsOf(i) ==
    Join([k \in 1..Len(EntriesOf(i)) |-> EntriesOf(i)[k].arguments])

\* a prefix of a JSON document
JsonPrefix(text) == text \in {"", "{", "{}", "{k}"}

\* the service sends every tool call once: its first entry names it, the
\* others do not, and its fragments so far begin a JSON document; every
\* chunk has a choice
FragmentsArrive ==
    /\ \A c \in 1..Len(received) : received[c].choices = 1
    /\ \A i \in ToolIndices :
           EntriesOf(i) /= <<>> =>
               /\ EntriesOf(i)[1].id /= ""
               /\ \A k \in 2..Len(EntriesOf(i)) : EntriesOf(i)[k].id = ""
               /\ JsonPrefix(ArgumentsOf(i))

\* the stream has ended and the fragments of every tool call join to a JSON
\* document
FragmentsComplete ==
    /\ exhausted
    /\ FragmentsArrive
    /\ \A i \in ToolIndices :
           EntriesOf(i) /= <<>> => json_loads(ArgumentsOf(i)).error = None

\* the positions of the deltas that carry a ToolUse block
ToolUseDeltas ==
    {p \in 1..Len(produced) :
        /\ ~produced[p].is_aggregate
        /\ produced[p].content[1].type = "tool_use"}

\* the deltas that carry the ToolUse block of the tool call with index i
DeltasOf(i) ==
    {p \in ToolUseDeltas : produced[p].content[1].id = EntriesOf(i)[1].id}

\* the entries at which a different index begins
IndexChanges ==
    {k \in 2..Len(ToolCallsOf(received)) :
        ToolCallsOf(received)[k].index /= ToolCallsOf(received)[k - 1].index}

\* C32: the adapter buffers tool-call arguments per index: for every order
\* in which the fragments of the tool-call indices arrive the stream does
\* not fail while they arrive, and when it has ended each index has yielded
\* exactly one ToolUse block, whose params are the JSON value of the
\* concatenation of that index's argument fragments in arrival order; a
\* block is flushed exactly when a different index begins or the stream
\* terminates; and text buffered before the first tool call is emitted as a
\* Text delta before the first tool block
C32_BufferedPerIndex ==
    (/\ adapter = "openai"
     /\ method = "stream"
     /\ wire_error /= "APIError"
     /\ FragmentsArrive) =>
        /\ ~exhausted => wire_pc /= "failed"
        /\ FragmentsComplete =>
               /\ wire_pc = "done"
               /\ \A i \in ToolIndices :
                      EntriesOf(i) /= <<>> =>
                          /\ Cardinality(DeltasOf(i)) = 1
                          /\ \A p \in DeltasOf(i) :
                                 produced[p].content[1].params
                                     = json_loads(ArgumentsOf(i)).value
        /\ wire_pc = "chunks" =>
               Cardinality(ToolUseDeltas) = Cardinality(IndexChanges)
        /\ (/\ ToolUseDeltas /= {}
            /\ received[1].content /= "") =>
               /\ produced[1].content[1].type = "text"
               /\ \A p \in ToolUseDeltas : p > 1

\* the positions of the user messages of the input
UserPositions ==
    {i \in 1..Len(wire_messages) : wire_messages[i].role = "user"}

\* C33: every assistant message an adapter produces (the deltas and the
\* aggregate of stream, the result of send) has parent_id equal to the id of
\* the last message with role 'user' of the input, for both adapters, and
\* also when tool messages follow that user message
C33_ParentIsLastUser ==
    \A p \in 1..Len(produced) :
        \E u \in UserPositions :
            /\ \A v \in UserPositions : v <= u
            /\ produced[p].parent_id = wire_messages[u].id

(***************************************************************************)
(* Tool schema reflection (SpecTool): Tool.from_func (tool.py) on the      *)
(* signature of a function, and the call of tool.func with the params of   *)
(* a tool use (tool_execution.py).  A value is its type and a number that  *)
(* two values share exactly when Python finds them equal.                  *)
(***************************************************************************)
\* parameters of a reflected function
MaxParams == 2

\* inspect.Parameter.empty: the parameter has no default
Empty == [type |-> "empty", value |-> 0 - 1]

\* the defaults of the parameters: 0, None, Dependency() and an instance of
\* a subclass of Dependency
DefaultValues ==
    {[type |-> "int", value |-> 0], [type |-> "NoneType", value |-> 10],
     [type |-> "Dependency", value |-> 20],
     [type |-> "SubDependency", value |-> 21]}

\* DatabaseClient(): what a middleware injects
Injected == 30

Parameters ==
    [name : {"self", "query_str", "db"},
     annotation : {"str", "DatabaseClient"},
     default : DefaultValues \cup {Empty}]

\* inspect.signature(func).parameters: the names differ
Signatures ==
    {sig \in UNION {[1..n -> Parameters] : n \in 0..MaxParams} :
        \A i, j \in 1..Len(sig) : sig[i].name = sig[j].name => i = j}

\* the classes whose instances are instances of t
Subclasses(t) ==
    IF t = "Dependency" THEN {"Dependency", "SubDependency"} ELSE {t}

\* Tool._schema_from_type: a schema, or NotImplementedError for a type that
\* is not supported
_schema_from_type(t) ==
    IF t = "str"
    THEN [error |-> None, schema |-> "string"]
    ELSE [error |-> "NotImplementedError", schema |-> ""]

\* type(param.default) in hidden_default_types
is_hidden_exact_type(param, types, values) ==
    \/ /\ values /= {}
       /\ \E v \in values : v.value = param.default.value
    \/ /\ types /= {}
       /\ param.default.type \in types

\* param.default in hidden_default_values, or
\* isinstance(param.default, hidden_default_types)
is_hidden(param, types, values) ==
    \/ /\ values /= {}
       /\ \E v \in values : v.value = param.default.value
    \/ /\ types /= {}
       /\ \E t \in types : param.default.type \in Subclasses(t)

\* for param_name, param in sig.parameters.items()
RECURSIVE ForParameters(_, _, _, _)
ForParameters(parameters, types, values, made) ==
    IF parameters = <<>> \/ made.error /= None THEN made
    ELSE LET param == Head(parameters)
             is_required == param.default = Empty
             json_schema == _schema_from_type(param.annotation)
         IN  IF param.name \in {"self", "cls"}
             THEN ForParameters(Tail(parameters), types, values, made)
             ELSE IF ~is_required /\ is_hidden(param, types, values)
             THEN ForParameters(Tail(parameters), types, values, made)
             ELSE IF json_schema.error /= None
             THEN [made EXCEPT !.error = json_schema.error]
             ELSE ForParameters(
                      Tail(parameters), types, values,
                      [error |-> None,
                       properties |-> DictSet(made.properties, param.name,
                                              json_schema.schema),
                       required |-> IF is_required
                                    THEN Append(made.required, param.name)
                                    ELSE made.required])

\* Tool.from_func(func, hidden_default_types=..., hidden_default_values=...)
from_func(sig, types, values) ==
    /\ tool_pc = "idle"
    /\ func' = sig
    /\ hidden_default_types' = types
    /\ hidden_default_values' = values
    /\ tool_built' =
           ForParameters(sig, types, values,
                         [error |-> None, properties |-> [n \in {} |-> ""],
                          required |-> <<>>])
    /\ tool_pc' = IF tool_built'.error = None THEN "built" ELSE "failed"
    /\ UNCHANGED <<engine, adapter_call, call_args>>

\* the names of a list
Names(items) == {items[i] : i \in 1..Len(items)}

\* BaseToolExecutionHandler._execute_tool: tool.func(**tool_use['params']).
\* The model sends the required or all of the properties; a tool-execution
\* middleware may put a value under every parameter whose default is a
\* Dependency.  Python binds the params to the signature: TypeError when a
\* parameter without default is missing
CallTool(all_properties, injects) ==
    /\ tool_pc = "built"
    /\ LET sent == IF all_properties THEN DOMAIN tool_built.properties
                   ELSE Names(tool_built.required)
           put == IF injects
                  THEN {func[i].name : i \in {i \in 1..Len(func) :
                            func[i].default.type \in Subclasses("Dependency")}}
                  ELSE {}
           params == [n \in sent \cup put |->
                         IF n \in put THEN Injected ELSE 1]
           missing == \E i \in 1..Len(func) :
                          /\ func[i].default = Empty
                          /\ func[i].name \notin DOMAIN params
           bound == [n \in {func[i].name : i \in 1..Len(func)} |->
                        IF n \in DOMAIN params THEN params[n]
                        ELSE func[CHOOSE i \in 1..Len(func) :
                                      func[i].name = n].default.value]
       IN  call_args' =
               [error |-> IF missing THEN "TypeError" ELSE None,
                params |-> params,
                args |-> IF missing THEN [n \in {} |-> 0] ELSE bound]
    /\ tool_pc' = "called"
    /\ UNCHANGED <<engine, adapter_call, func, hidden_default_types,
                   hidden_default_values, tool_built>>

NextTool ==
    \/ /\ tool_pc = "idle"
       /\ \E sig \in Signatures, types \in SUBSET {"Dependency"},
             values \in {{}, {[type |-> "int", value |-> 0]},
                         {[type |-> "NoneType", value |-> 10]}} :
              from_func(sig, types, values)
    \/ \E all_properties, injects \in BOOLEAN :
           CallTool(all_properties, injects)

SpecTool == Init /\ [][NextTool]_vars

\* the default of the parameter equals one of hidden_default_values or is
\* an instance of one of hidden_default_types
HiddenDefault(param) ==
    /\ param.default.type /= "empty"
    /\ \/ \E v \in hidden_default_values : v.value = param.default.value
       \/ \E t \in hidden_default_types :
              param.default.type \in Subclasses(t)

\* the parameter is an entry of properties
InProperties(param) == param.name \in DOMAIN tool_built.properties

InRequired(param) == param.name \in Names(tool_built.required)

\* tool.func received what tool_use.params held for its hidden parameters
HiddenPassedThrough ==
    (tool_pc = "called" /\ call_args.error = None) =>
        \A i \in 1..Len(func) :
            (/\ HiddenDefault(func[i])
             /\ func[i].name \in DOMAIN call_args.params) =>
                call_args.args[func[i].name] = call_args.params[func[i].name]

\* C34 as stated: a parameter whose default equals one of
\* hidden_default_values or is an instance of one of hidden_default_types
\* appears neither in properties nor in required, every other parameter
\* appears in properties and is in required exactly when it has no default,
\* and the function receives a hidden parameter that tool_use.params holds
C34_HiddenOmittedOthersListed ==
    /\ tool_pc \in {"built", "called"} =>
           \A i \in 1..Len(func) :
               IF HiddenDefault(func[i])
               THEN ~InProperties(func[i]) /\ ~InRequired(func[i])
               ELSE /\ InProperties(func[i])
                    /\ InRequired(func[i]) <=> func[i].default.type = "empty"
    /\ HiddenPassedThrough

\* C34: a parameter whose default equals one of hidden_default_values or is
\* an instance of one of hidden_default_types appears neither in properties
\* nor in required, and neither does a parameter named self or cls; every
\* other parameter appears in properties and is in required exactly when it
\* has no default; the function receives a hidden parameter that
\* tool_use.params holds
C34_HiddenOmitted ==
    /\ tool_pc \in {"built", "called"} =>
           \A i \in 1..Len(func) :
               IF HiddenDefault(func[i]) \/ func[i].name \in {"self", "cls"}
               THEN ~InProperties(func[i]) /\ ~InRequired(func[i])
               ELSE /\ InProperties(func[i])
                    /\ InRequired(func[i]) <=> func[i].default.type = "empty"
    /\ HiddenPassedThrough

\* query_db(query_str: str, db: DatabaseClient = SubDependency()) with
\* hidden_default_types = (Dependency,): db is not in the schema, query_str
\* is required, and the function received the injected client
C34_Witness ==
    /\ tool_pc = "called"
    /\ call_args.error = None
    /\ hidden_default_types = {"Dependency"}
    /\ \E i, j \in 1..Len(func) :
           /\ func[i].name = "query_str"
           /\ InRequired(func[i])
           /\ func[j].name = "db"
           /\ func[j].annotation = "DatabaseClient"
           /\ func[j].default.type = "SubDependency"
           /\ ~InProperties(func[j])
           /\ call_args.args["db"] = Injected

(***************************************************************************)
(* Calls one after another on an engine whose middlewares edit             *)
(* ctx.messages or drop tool tasks, with a provider that answers by the    *)
(* history it is given and a tool that does the same whenever it is called *)
(* (SpecCalls).                                                            *)
(***************************************************************************)
\* messages=[...]: the lists the callers pass
CallInputs == {InputMessages, <<UserMessage(0), UserMessage(8)>>}

CallModel == <<"mock", "/", "m">>

\* the position of the last user message of a list
LastUser(messages) ==
    CHOOSE i \in 1..Len(messages) :
        /\ messages[i].role = "user"
        /\ \A j \in (i + 1)..Len(messages) : messages[j].role /= "user"

\* the number of assistant messages behind the last user message
Turn(messages) ==
    Cardinality({i \in (LastUser(messages) + 1)..Len(messages) :
                    messages[i].role = "assistant"})

\* the providers: what each answers in every turn, and what tool_1 does
Scripts ==
    [answers : [0..(MaxIterations - 1) -> MwContents], outcome : Outcomes]

\* the answer of the provider to a history, from stream and from send
Answer(messages) == script.answers[Turn(messages)]

\* provider.stream yields its answer to the history it was called with
Replies ==
    /\ pc = "pulling"
    /\ ProviderResponds(Answer(stream_calls[Len(stream_calls)].messages))

\* the stream of the provider is exhausted behind its answer
RepliesEnd ==
    /\ pc = "pulling"
    /\ stream_calls[Len(stream_calls)].yielded < Len(yielded)
    /\ StreamEnd

\* provider.send returns its answer to the history it was called with
SendReplies ==
    /\ pc = "sending"
    /\ SendResponds(Answer(stream_calls[Len(stream_calls)].messages))

\* a gathered task runs to completion: tool_1 does what it always does
ToolRuns(i) ==
    /\ RunToolTask(i)
    /\ tool_tasks[i].kind = "_execute_tool"
           => tool_tasks'[i].result = _execute_tool(tool_tasks[i],
                                                    script.outcome)

\* the messages of the events a stream call has yielded
Messages(events_yielded) ==
    [i \in 1..Len(events_yielded) |-> events_yielded[i].message]

\* the caller is done with the call and keeps what it got from it
KeepAndReturn ==
    /\ Discard
    /\ kept' = [method |-> IF call_messages /= <<>> THEN "send" ELSE "stream",
                model |-> model,
                messages |-> caller_list.before,
                max_iterations |-> max_iterations,
                yielded |-> Messages(yielded),
                returned |-> IF call_messages /= <<>> /\ pc = "done"
                             THEN returned ELSE <<>>,
                func_calls |-> func_calls,
                error |-> IF pc = "failed" THEN error ELSE None]

\* BigTalk(), add_provider("mock", f1), and the middlewares registered on
\* the three stacks
InitCalls ==
    /\ InitCallers
    /\ InitLoop
    /\ call_messages = <<>>
    /\ returned = None
    /\ context = [tool_uses |-> <<>>, tools |-> <<>>]
    /\ InitClosing
    /\ InitTiming
    /\ InitWire
    /\ InitReflection
    /\ caller_list = [before |-> <<>>, now |-> <<>>]
    /\ history_shared = FALSE
    /\ script \in Scripts
    /\ kept = NothingKept
    /\ _streaming \in {<<>>, <<Splice>>}
    /\ _stream_iteration \in {<<>>, <<History>>}
    /\ _tool_execution \in {<<>>, <<Drop>>}
    /\ _stream_iteration_handler = <<>>
    /\ _tool_execution_handler = <<>>
    /\ frames = <<>>
    /\ pending = <<>>
    /\ call_log = <<>>
    /\ error_text = ""
    /\ calls_made = 0
    /\ previous = [pc |-> "idle", error |-> None, error_text |-> ""]
    /\ _providers = [n \in {} |-> Instance(None, 0)]
    /\ _provider_factories =
           add_provider("mock", Factory("mock", "f1"), FALSE,
                        [n \in {} |-> Instance(None, 0)],
                        [n \in {"anthropic", "openai"} |->
                            IF n = "anthropic"
                            THEN "_anthropic_provider_factory"
                            ELSE "_openai_provider_factory"]).factories
    /\ factory_calls = [f \in Factories |-> 0]
    /\ registrations =
           [n \in ProviderNames |->
               IF n \in DOMAIN _provider_factories
               THEN <<_provider_factories[n]>> ELSE <<>>]

\* the second call is given the max_iterations of the first
NextCalls ==
    \/ /\ pc = "idle"
       /\ \E messages \in CallInputs, n \in 0..MaxIterations :
              /\ calls_made = 0 \/ n = kept.max_iterations
              /\ stream(CallModel, messages, n)
    \/ ForIteration
    \/ Replies
    \/ RepliesEnd
    \/ \E i \in 1..Len(tool_tasks) : ToolRuns(i)
    \/ Gather
    \/ YieldToolMessage
    \/ /\ pc = "idle"
       /\ \E messages \in CallInputs, n \in 0..MaxIterations :
              /\ calls_made = 0 \/ n = kept.max_iterations
              /\ send(CallModel, messages, n)
    \/ SendIteration
    \/ SendReplies
    \/ SendGather
    \/ KeepAndReturn

SpecCalls == InitCalls /\ [][NextCalls]_vars

(***************************************************************************)
(* Properties of the working history and of the caller's list (SpecCalls). *)
(***************************************************************************)
\* the stream call in progress has entered its terminal handler
HandlerStarted ==
    /\ call_messages = <<>>
    /\ \E i \in 1..Len(call_log) :
           call_log[i] = LogEntry("streaming", "terminal",
                                  BaseStreamHandler.tag, -1)

\* ctx.messages when the terminal handler starts: the input, behind what the
\* streaming middleware spliced in
StartOfHandler ==
    IF \E i \in 1..Len(_streaming) : _streaming[i] = Splice
    THEN db_history \o caller_list.before
    ELSE caller_list.before

\* the aggregates, app messages and tool messages among the first n
\* messages the call yielded, in the order they were yielded
RecordedUpTo(n) ==
    LET Recorded(e) ==
            \/ e.message.role \in {"app", "tool"}
            \/ e.message.is_aggregate
    IN  Messages(SelectSeq(SubSeq(yielded, 1, n), Recorded))

\* the working history and the messages of every provider call are the
\* start of the handler followed by what was appended until then
StartThenAppended ==
    /\ current_history = StartOfHandler \o RecordedUpTo(Len(yielded))
    /\ \A c \in 1..Len(stream_calls) :
           /\ stream_calls[c].iteration = c - 1
           /\ stream_calls[c].messages =
                  StartOfHandler \o RecordedUpTo(stream_calls[c].yielded)

\* a middleware of the loop edits ctx.messages, which is the working history
EditedInLoop ==
    \/ \E i \in 1..Len(_stream_iteration) :
           _stream_iteration[i] \in {History, Splice}
    \/ \E i \in 1..Len(_tool_execution) :
           _tool_execution[i] \in {History, Splice}

CallerList == IF history_shared THEN current_history ELSE caller_list.now

\* what the first provider call of the call in progress is passed when the
\* call works on nothing but its own input and what its middlewares
\* spliced in
OwnStart ==
    IF call_messages /= <<>> THEN caller_list.before
    ELSE (IF \E i \in 1..Len(_stream_iteration) :
                 _stream_iteration[i] = History
          THEN db_history ELSE <<>>) \o StartOfHandler

\* C36: whatever a stream or send call has done so far, and also when a
\* streaming middleware rewrote ctx.messages in place, the list of the
\* caller has the length and the elements it had when it was passed; and
\* the working history of a call starts from the input of that call, never
\* from the history of the call before it on the same engine
C36_CallerListUntouched ==
    /\ CallerList = caller_list.before
    /\ stream_calls /= <<>> => stream_calls[1].messages = OwnStart

\* the second call on an engine, a stream call through a middleware that
\* rewrote ctx.messages, has ended after two iterations; the call before it
\* had another input and yielded or returned messages
C36_Witness ==
    /\ calls_made = 1
    /\ kept.messages /= caller_list.before
    /\ Len(kept.yielded) + Len(kept.returned) >= 2
    /\ call_messages = <<>>
    /\ _streaming = <<Splice>>
    /\ pc = "done"
    /\ Len(stream_calls) = 2
    /\ Len(current_history) > Len(db_history) + Len(caller_list.before)

\* the call in progress is a send call
Sending == call_messages /= <<>>

\* the aggregate assistant messages and the tool messages of a list
AggregatesAndTools(messages) ==
    LET Kept(m) == \/ m.role = "tool"
                   \/ m.role = "assistant" /\ m.is_aggregate
    IN  SelectSeq(messages, Kept)

\* a list of messages without the ids of its tool messages, which are
\* generated afresh in every call
WithoutToolIds(messages) ==
    [i \in 1..Len(messages) |->
        IF messages[i].role = "tool"
        THEN [messages[i] EXCEPT !.id = 0] ELSE messages[i]]

\* the call that has ended and the call before it were made with the same
\* arguments, one of them with stream and the other with send, and both
\* ended without a failure
StreamAndSendAlike ==
    /\ pc = "done"
    /\ kept.method \in {"stream", "send"}
    /\ kept.error = None
    /\ kept.method = (IF Sending THEN "stream" ELSE "send")
    /\ kept.model = model
    /\ kept.messages = caller_list.before
    /\ kept.max_iterations = max_iterations

ToolIterations ==
    {f.iteration : f \in func_calls}
        \cup (IF tool_tasks /= <<>> THEN {iteration} ELSE {})

CloseStep == pc = "closing" \/ pc' = "closing"

\* the providers whose close() has been called
Closed == {n \in ProviderNames : close_calls[n] >= 1}

\* resolving the name returns the cached instance and invokes no factory
ResolvesCached(n, providers, factories, calls) ==
    LET got == _get_provider(n, providers, factories, calls)
    IN  /\ n \in DOMAIN providers
        /\ got.error = None
        /\ got.llm = providers[n]
        /\ got.providers = providers
        /\ got.calls = calls

\* C39: no step of close, whether it returns or raises, changes the
\* provider cache, the factory map or the number of invocations of a
\* factory; a provider that has been closed is resolved to the cached
\* instance, the one that was closed, without an invocation of its factory;
\* and a close call that starts makes a close() task for every provider
\* that has been closed before
C39_CloseKeepsCache ==
    [][/\ CloseStep => UNCHANGED <<_providers, _provider_factories,
                                   factory_calls>>
       /\ \A n \in Closed' :
              ResolvesCached(n, _providers', _provider_factories',
                             factory_calls')
       /\ (~close_tasks.called /\ close_tasks'.called) =>
              Closed \subseteq DOMAIN close_tasks'.state]_vars

\* the second close on an engine has raised; both cached providers were
\* closed by the first and again by the second
C39_Witness ==
    /\ calls_made = 1
    /\ CloseEnded
    /\ pc = "failed"
    /\ DOMAIN _providers = {"mock", "provB"}
    /\ \A n \in DOMAIN _providers : close_calls[n] = 2

(***************************************************************************)
(* One stream call behind a tool-execution middleware that returns fewer   *)
(* tasks than there are tool uses (SpecZip).                               *)
(***************************************************************************)
\* bt.tool_execution.use(drop), before the call
UseDrop ==
    /\ pc = "idle"
    /\ _tool_execution = <<>>
    /\ _tool_execution' = use(_tool_execution, Drop)
    /\ UNCHANGED <<registry, loop, callers, facade, _streaming,
                   _stream_iteration, handlers, frames, pending, call_log,
                   error_text, calls_made, previous>>

NextZip ==
    \/ UseDrop
    \/ \E m \in ModelIds, n \in 0..MaxIterations : stream(m, InputMessages, n)
    \/ ForIteration
    \/ StreamDelta
    \/ StreamAggregate
    \/ StreamApp
    \/ StreamRaises
    \/ StreamEnd
    \/ \E i \in 1..Len(tool_tasks) : RunToolTask(i)
    \/ Gather
    \/ YieldToolMessage

SpecZip == Init /\ [][NextZip]_vars

\* the results of a list of tool messages, each with the parent of its
\* message, in the order of the messages and of their contents
RECURSIVE Attributed(_)
Attributed(tool_messages) ==
    IF tool_messages = <<>> THEN <<>>
    ELSE LET first == Head(tool_messages)
         IN  [r \in 1..Len(first.content) |->
                 [parent_id |-> first.parent_id,
                  tool_use_id |-> first.content[r].tool_use_id]]
                 \o Attributed(Tail(tool_messages))

\* the iteration before this one has ended with tool uses
IterationEnded ==
    /\ pc = "for"
    /\ iteration >= 1
    /\ tool_uses_by_parent /= <<>>

\* how many tasks the middleware leaves out, and which tool use the i-th
\* task it returns was made for
Dropped == IF \E i \in 1..Len(_tool_execution) : _tool_execution[i] = Drop
           THEN 1 ELSE 0

=============================================================================
